---- MODULE Spec2Model ----
(***************************************************************************)
(* Model of the _froggi engine: the frame loop of Engine::run with its     *)
(* fixed-timestep accumulator and render interpolation, the pass sequence  *)
(* of Renderer::renderScene, and the CollisionSystem adapter (body         *)
(* creation, per-step synchronisation, layer filtering).                   *)
(*                                                                         *)
(* Time is counted in exact ticks: TicksPerStep ticks make up 1/60 s.      *)
(* Positions are one axis of the glm::vec3 (every operation of the loop    *)
(* is component-wise), counted in units of 1/PosScale so that glm::mix is  *)
(* exact.                                                                  *)
(***************************************************************************)
EXTENDS Integers, Sequences, FiniteSets, TLC

\* ---------------------------------------------------------------- bounds
TicksPerStep == 2      \* resolution of the clock: ticks in 1/60 s
MaxDelta == 3          \* largest measured frame delta, in ticks
MaxFrames == 3         \* frames of Engine::run that are explored
MaxStepMove == 1       \* largest per-step displacement of a dynamic body, in whole units
MaxComponents == 3     \* components a scene is populated with
NumObjects == 2        \* GameObjects a scene is populated with
LayerBits == 3         \* low bits of the uint32_t layer masks that are modelled
MaxScenes == 3         \* scenes the game makes and loads
MaxMeshes == 3         \* meshes the game loads
MaxVertices == 3       \* vertices of the largest geometry file
OutSize == 4           \* width and height of the swap-chain target, in pixels
TexSize == 4           \* width and height of the blit's source texture, in texels
MaxClipFrames == 2     \* frames of the longest animation clip
MaxAnimDelta == 2      \* largest deltaTime an Animator update gets, in ticks
MaxAnimTime == 2       \* how far below zero currentTime is followed, in ticks
MaxUpdates == 2        \* CollisionSystem::update calls that are followed on their own
MaxTriangles == 2      \* triangles of a collision mesh
MaxDraws == 3          \* drawDebugShapes calls that are followed on their own

\* ------------------------------------------------------- program constants
fixedTimeStep == TicksPerStep
FallbackDelta == TicksPerStep
InvalidBodyID == 0
cMaxBodies == 1024
NON_MOVING == 0
MOVING == 1
NormalScale == 10      \* a contact normal component of 1.0f
GroundThreshold == 6   \* 0.6f, in the same units
None == 0
Player == 1
Ground == 2
Wall == 4

RECURSIVE Pow(_, _)
Pow(b, e) == IF e = 0 THEN 1 ELSE b * Pow(b, e - 1)

\* CollisionLayer::All, every modelled bit set
All == Pow(2, LayerBits) - 1

\* one whole world unit, in position units
PosScale == Pow(fixedTimeStep, MaxFrames)

FrameTicks == 2        \* a clip's frame duration 1 / frameRate, in ticks of 1/48 s
NoClip == ""           \* the default currentClipName; currentClip = nullptr
Objs == 1..NumObjects
NoObject == 0

VARIABLES
    pc,             \* position of Engine::run / of the scene script
    frames,         \* frames begun so far
    measured,       \* currentTime - lastTime of the running frame
    deltaTime,      \* Engine::deltaTime
    accumulator,    \* Engine::accumulator
    alpha,          \* numerator of alpha = accumulator / fixedTimeStep
    gameDt,         \* argument of the last Game::onUpdate
    compDt,         \* argument of the last component onUpdate
    fixedDt,        \* argument of the last onFixedUpdate / CollisionSystem::update
    frameLog,       \* stages executed by the running frame, in order
    swapAcquired,   \* the last renderBlitPass got a swap-chain texture view
    dtTotal,        \* sum of the effective deltas accumulated so far
    stepsTotal,     \* iterations of the fixed-step loop so far
    hasScene,       \* game->currentScene != nullptr
    hasCamera,      \* game->mainCamera != nullptr
    position,       \* GameObject::position, per object
    active,         \* GameObject::active, per object
    nObjects,       \* GameObjects the scene has created; they are 1..nObjects
    gameObjects,    \* scene->gameObjects: the created GameObjects not destroyed
    components,     \* scene->components
    initialized,    \* CollisionSystem::initialize has run for the scene
    atInit,         \* scene->components as they were when initialize ran
    colliders,      \* CollisionSystem::colliders (indices into components)
    bodyToGameObject, \* CollisionSystem::bodyToGameObject
    bodies,         \* bodies of the physics world, by body id
    debugDrawEnabled, \* CollisionSystem::m_debugDrawEnabled
    m_staticLinesCached, \* CollisionSystem::m_staticLinesCached
    m_cachedStaticLines, \* CollisionSystem::m_cachedStaticLines
    lines,          \* JoltDebugRenderer::lines of CollisionSystem::m_debugRenderer
    layerQuery,     \* last Collider::shouldCollideWith call and its result
    validateResult, \* last OnContactValidate call and its result
    contact,        \* last contact event reported by the physics step
    callbacks,      \* Collider callbacks that event invoked, in order
    reported,       \* contact events of the last whole CollisionSystem::update
    currentScene,   \* Game::currentScene, 0 for nullptr
    scenes,         \* every Scene made so far, by id
    systems,        \* every CollisionSystem made so far, by id
    lifeLog,        \* calls made by the last loadScene or shutdown, in order
    shutDown,       \* Engine::shutdown has run
    m_meshes,       \* Renderer::m_meshes
    lastLoad,       \* the last loadMesh call: arguments, result, m_meshes before it
    lookup,         \* the getMeshByName call made since: name and mesh found
    m_zoomUniforms, \* Renderer::m_zoomUniforms
    sample,         \* what the blit shader read for a fragment under m_zoomUniforms
    animator,       \* an Animator, with its owner's MeshComponent::meshName
    hasMeshComponent, \* the Animator's owner has a MeshComponent
    animCall        \* the last call made on the Animator

engineVars == <<pc, frames, measured, deltaTime, accumulator, alpha, gameDt,
                compDt, fixedDt, frameLog, swapAcquired, dtTotal, stepsTotal>>
sceneVars == <<hasScene, hasCamera, position, active, nObjects, gameObjects,
               components>>
debugVars == <<m_staticLinesCached, m_cachedStaticLines, lines>>
physVars == <<initialized, atInit, colliders, bodyToGameObject, bodies,
              debugDrawEnabled, debugVars>>
queryVars == <<layerQuery, validateResult>>
contactVars == <<contact, callbacks, reported>>
lifeVars == <<currentScene, scenes, systems, lifeLog, shutDown>>
meshVars == <<m_meshes, lastLoad, lookup>>
blitVars == <<m_zoomUniforms, sample>>
animVars == <<animator, hasMeshComponent, animCall>>
auxVars == <<contactVars, lifeVars, meshVars, blitVars, animVars>>
vars == <<engineVars, sceneVars, physVars, queryVars, auxVars>>

\* --------------------------------------------------------------- components
\* Component, Collider and Rigidbody with their default member values
NewComponent(kind, obj) ==
    [kind |-> kind, owner |-> obj, enabled |-> TRUE,
     isKinematic |-> FALSE, isGrounded |-> FALSE, groundNormal |-> <<0, NormalScale>>,
     previousPosition |-> 0, currentPosition |-> 0,
     velocity |-> 0, center |-> 0, isTrigger |-> FALSE, meshTriangles |-> 0,
     collisionLayer |-> None, collisionMask |-> All,
     bodyID |-> InvalidBodyID]

\* GameObject::getComponent<T>: the first component of the type among the
\* owner's components, 0 for nullptr
GetComponent(comps, obj, kind) ==
    LET S == {i \in 1..Len(comps) : comps[i].owner = obj /\ comps[i].kind = kind}
    IN IF S = {} THEN 0 ELSE CHOOSE i \in S : \A j \in S : i <= j

\* the condition guarding the snapshot and interpolation loops of Engine::run
IsInterpolated(c) ==
    c.kind = "Rigidbody" /\ c.enabled /\ c.owner # NoObject /\ ~c.isKinematic

\* ---------------------------------------------------------- CollisionSystem
\* createBody taking a disabled Rigidbody for no Rigidbody
MotionTypeOfEnabled(comps, rb) ==
    IF rb = 0 \/ ~comps[rb].enabled THEN "Static"
    ELSE IF comps[rb].isKinematic THEN "Kinematic"
    ELSE "Dynamic"

\* createBody, "Determine motion type"; rb is the sibling Rigidbody's index
\* in comps, 0 when the owner has none
MotionTypeOf(comps, rb) ==
    IF rb = 0 THEN "Static"
    ELSE IF comps[rb].isKinematic THEN "Kinematic"
    ELSE "Dynamic"

\* createBody, "Determine object layer"
ObjectLayerOf(motionType) ==
    IF motionType = "Static" THEN NON_MOVING ELSE MOVING

\* CollisionSystem::createBody: the world after the call and the id returned
\* (InvalidBodyID when the physics world cannot create the body)
CreateBody(world, comps, pos, col, rb) ==
    IF col = 0 \/ comps[col].owner = NoObject \/ Len(world) >= cMaxBodies
    THEN [world |-> world, id |-> InvalidBodyID]
    ELSE LET mt == MotionTypeOf(comps, rb)
             body == [position |-> pos[comps[col].owner] + comps[col].center,
                      velocity |-> 0,
                      triangles |-> comps[col].meshTriangles,
                      motionType |-> mt,
                      objectLayer |-> ObjectLayerOf(mt),
                      isSensor |-> comps[col].isTrigger]
         IN [world |-> Append(world, body), id |-> Len(world) + 1]

\* initialize skipping disabled colliders
IsRegistrableEnabled(c) == c.kind = "Collider" /\ c.owner # NoObject /\ c.enabled

\* the test of the loop of CollisionSystem::initialize: which components get
\* a body
IsRegistrable(c) == c.kind = "Collider" /\ c.owner # NoObject

\* the loop of CollisionSystem::initialize from component i on; st carries
\* the components, the collider list, the body map and the physics world
RECURSIVE InitializeFrom(_, _, _)
InitializeFrom(st, pos, i) ==
    IF i > Len(st.components) THEN st
    ELSE IF ~IsRegistrable(st.components[i]) THEN InitializeFrom(st, pos, i + 1)
    ELSE LET c == st.components[i]
             rb == GetComponent(st.components, c.owner, "Rigidbody")
             r == CreateBody(st.bodies, st.components, pos, i, rb)
         IN IF r.id = InvalidBodyID
            THEN InitializeFrom([st EXCEPT !.bodies = r.world], pos, i + 1)
            ELSE InitializeFrom(
                   [components |-> [st.components EXCEPT ![i].bodyID = r.id],
                    colliders |-> Append(st.colliders, i),
                    bodyToGameObject |-> st.bodyToGameObject @@ (r.id :> c.owner),
                    bodies |-> r.world], pos, i + 1)

\* CollisionSystem::initialize on a freshly constructed CollisionSystem
Initialize(comps, pos) ==
    InitializeFrom([components |-> comps, colliders |-> <<>>,
                    bodyToGameObject |-> <<>>, bodies |-> <<>>], pos, 1)

\* CollisionSystem::getGameObjectFromBodyID
GetGameObjectFromBodyID(map, id) ==
    IF id \in DOMAIN map THEN map[id] ELSE NoObject

\* CollisionSystem::update, "Reset grounded state"
ResetGrounded(comps) ==
    [i \in 1..Len(comps) |->
        IF comps[i].kind = "Rigidbody" /\ comps[i].enabled
        THEN [comps[i] EXCEPT !.isGrounded = FALSE] ELSE comps[i]]

\* the guard shared by the loops of update and syncJoltToGameObjects
IsSynced(comps, act, col) == comps[col].enabled /\ act[comps[col].owner]

\* CollisionSystem::update, the loop over colliders from entry k on: bodies
\* of kinematic Rigidbodies take the transform of their GameObject, bodies
\* of the other Rigidbodies take a velocity that game code has written
RECURSIVE PushKinematic(_, _, _, _, _, _)
PushKinematic(world, comps, cols, pos, act, k) ==
    IF k > Len(cols) THEN world
    ELSE LET col == cols[k]
             id == comps[col].bodyID
             rb == GetComponent(comps, comps[col].owner, "Rigidbody")
         IN IF IsSynced(comps, act, col) /\ rb # 0 /\ comps[rb].isKinematic
            THEN PushKinematic(
                   [world EXCEPT ![id].position =
                        pos[comps[col].owner] + comps[col].center],
                   comps, cols, pos, act, k + 1)
            ELSE IF IsSynced(comps, act, col) /\ rb # 0
                    /\ comps[rb].velocity # world[id].velocity
            THEN PushKinematic([world EXCEPT ![id].velocity = comps[rb].velocity],
                               comps, cols, pos, act, k + 1)
            ELSE PushKinematic(world, comps, cols, pos, act, k + 1)

\* the bodies PhysicsSystem::Update integrates
DynamicBodies(world) == {b \in 1..Len(world) : world[b].motionType = "Dynamic"}

\* PhysicsSystem::Update, a black box: every dynamic body ends the step with
\* the velocity mv gives it, in whole units per step, and is displaced by
\* it; other bodies stay
PhysicsStep(world, mv) ==
    [b \in 1..Len(world) |->
        IF b \in DOMAIN mv
        THEN [world[b] EXCEPT !.position = @ + mv[b] * PosScale,
                              !.velocity = mv[b]]
        ELSE world[b]]

\* CollisionSystem::syncJoltToGameObjects from entry k of colliders on; st
\* carries the GameObject positions and the components
RECURSIVE SyncJoltToGameObjects(_, _, _, _, _)
SyncJoltToGameObjects(st, world, cols, act, k) ==
    IF k > Len(cols) THEN st
    ELSE LET col == cols[k]
             c == st.comps[col]
             rb == GetComponent(st.comps, c.owner, "Rigidbody")
         IN IF IsSynced(st.comps, act, col) /\ rb # 0 /\ ~st.comps[rb].isKinematic
            THEN SyncJoltToGameObjects(
                   [pos |-> [st.pos EXCEPT ![c.owner] =
                                world[c.bodyID].position - c.center],
                    comps |-> [st.comps EXCEPT ![rb].velocity =
                                world[c.bodyID].velocity]],
                   world, cols, act, k + 1)
            ELSE SyncJoltToGameObjects(st, world, cols, act, k + 1)

\* -normal, component by component
Neg(n) == <<-n[1], -n[2]>>

\* the ground check with groundNormal = normal for body 1 as well
GroundCheckNoFlip(comps, obj1, obj2, normal) ==
    LET rb1 == GetComponent(comps, obj1, "Rigidbody")
        rb2 == GetComponent(comps, obj2, "Rigidbody")
        c1 == IF normal[2] < -GroundThreshold /\ rb1 # 0
              THEN [comps EXCEPT ![rb1].isGrounded = TRUE,
                                 ![rb1].groundNormal = normal]
              ELSE comps
    IN IF normal[2] > GroundThreshold /\ rb2 # 0
       THEN [c1 EXCEPT ![rb2].isGrounded = TRUE, ![rb2].groundNormal = normal]
       ELSE c1

\* "Check for ground collision" of OnContactAdded and OnContactPersisted:
\* normal is <<x, z>> of mWorldSpaceNormal
GroundCheck(comps, obj1, obj2, normal) ==
    LET rb1 == GetComponent(comps, obj1, "Rigidbody")
        rb2 == GetComponent(comps, obj2, "Rigidbody")
        c1 == IF normal[2] < -GroundThreshold /\ rb1 # 0
              THEN [comps EXCEPT ![rb1].isGrounded = TRUE,
                                 ![rb1].groundNormal = Neg(normal)]
              ELSE comps
    IN IF normal[2] > GroundThreshold /\ rb2 # 0
       THEN [c1 EXCEPT ![rb2].isGrounded = TRUE, ![rb2].groundNormal = normal]
       ELSE c1

\* OnContactAdded with && for || in the trigger test
OnContactAddedBothTriggers(comps, map, b1, b2, normal) ==
    LET obj1 == GetGameObjectFromBodyID(map, b1)
        obj2 == GetGameObjectFromBodyID(map, b2)
        col1 == GetComponent(comps, obj1, "Collider")
        col2 == GetComponent(comps, obj2, "Collider")
    IN IF obj1 = NoObject \/ obj2 = NoObject THEN [components |-> comps, callbacks |-> <<>>]
       ELSE IF col1 = 0 \/ col2 = 0 THEN [components |-> comps, callbacks |-> <<>>]
       ELSE IF comps[col1].isTrigger /\ comps[col2].isTrigger
       THEN [components |-> comps,
             callbacks |-> << <<"onTriggerEnter", col1, obj2>>,
                              <<"onTriggerEnter", col2, obj1>> >>]
       ELSE [components |-> GroundCheck(comps, obj1, obj2, normal),
             callbacks |-> << <<"onCollisionEnter", col1, obj2>>,
                              <<"onCollisionEnter", col2, obj1>> >>]

\* ContactListenerImpl::OnContactAdded for the bodies b1 and b2: the
\* components afterwards and the callbacks invoked, each as
\* <<callback, collider, argument>>
OnContactAdded(comps, map, b1, b2, normal) ==
    LET obj1 == GetGameObjectFromBodyID(map, b1)
        obj2 == GetGameObjectFromBodyID(map, b2)
        col1 == GetComponent(comps, obj1, "Collider")
        col2 == GetComponent(comps, obj2, "Collider")
    IN IF obj1 = NoObject \/ obj2 = NoObject THEN [components |-> comps, callbacks |-> <<>>]
       ELSE IF col1 = 0 \/ col2 = 0 THEN [components |-> comps, callbacks |-> <<>>]
       ELSE IF comps[col1].isTrigger \/ comps[col2].isTrigger
       THEN [components |-> comps,
             callbacks |-> << <<"onTriggerEnter", col1, obj2>>,
                              <<"onTriggerEnter", col2, obj1>> >>]
       ELSE [components |-> GroundCheck(comps, obj1, obj2, normal),
             callbacks |-> << <<"onCollisionEnter", col1, obj2>>,
                              <<"onCollisionEnter", col2, obj1>> >>]

\* ContactListenerImpl::OnContactPersisted for the bodies b1 and b2
OnContactPersisted(comps, map, b1, b2, normal) ==
    LET obj1 == GetGameObjectFromBodyID(map, b1)
        obj2 == GetGameObjectFromBodyID(map, b2)
        col1 == GetComponent(comps, obj1, "Collider")
        col2 == GetComponent(comps, obj2, "Collider")
    IN IF obj1 = NoObject \/ obj2 = NoObject THEN [components |-> comps, callbacks |-> <<>>]
       ELSE IF col1 = 0 \/ col2 = 0 THEN [components |-> comps, callbacks |-> <<>>]
       ELSE IF ~comps[col1].isTrigger /\ ~comps[col2].isTrigger
       THEN [components |-> GroundCheck(comps, obj1, obj2, normal),
             callbacks |-> << <<"onCollisionStay", col1, obj2>>,
                              <<"onCollisionStay", col2, obj1>> >>]
       ELSE [components |-> comps, callbacks |-> <<>>]

\* the contact listener calls PhysicsSystem::Update makes, one for each
\* reported event <<kind, body 1, body 2, normal>> from event k on
RECURSIVE ReportContacts(_, _, _, _)
ReportContacts(comps, map, events, k) ==
    IF k > Len(events) THEN comps
    ELSE LET e == events[k]
             r == IF e[1] = "added"
                  THEN OnContactAdded(comps, map, e[2], e[3], e[4])
                  ELSE OnContactPersisted(comps, map, e[2], e[3], e[4])
         IN ReportContacts(r.components, map, events, k + 1)

\* update without the "Reset grounded state" loop
UpdateNoReset(pos, comps, world, map, cols, act, mv, events) ==
    LET pushed == PushKinematic(world, comps, cols, pos, act, 1)
        stepped == PhysicsStep(pushed, mv)
        synced == SyncJoltToGameObjects(
                      [pos |-> pos,
                       comps |-> ReportContacts(comps, map, events, 1)],
                      stepped, cols, act, 1)
    IN [pos |-> synced.pos, comps |-> synced.comps, bodies |-> stepped]

\* CollisionSystem::update(scene, deltaTime): reset grounded, push the
\* kinematic transforms and written velocities, step, sync back; mv is what
\* the physics step does to the dynamic bodies, events the contacts it
\* reports to the listener
Update(pos, comps, world, map, cols, act, mv, events) ==
    LET pushed == PushKinematic(world, comps, cols, pos, act, 1)
        stepped == PhysicsStep(pushed, mv)
        synced == SyncJoltToGameObjects(
                      [pos |-> pos,
                       comps |-> ReportContacts(ResetGrounded(comps), map, events, 1)],
                      stepped, cols, act, 1)
    IN [pos |-> synced.pos, comps |-> synced.comps, bodies |-> stepped]

\* ------------------------------------------------------------- Engine::run
\* the clamp with < for <=: a zero delta goes through
EffectiveDeltaStrict(m) == IF m < 0 THEN FallbackDelta ELSE m

\* the clamp left out
EffectiveDeltaUnclamped(m) == m

\* "if (deltaTime <= 0.0f) deltaTime = 1.0f / 60.0f"
EffectiveDelta(m) == IF m <= 0 THEN FallbackDelta ELSE m

\* the loop condition with > for >=
StepDueStrict(acc) == acc > fixedTimeStep

\* the loop condition with a cap: no step when more than one is due
StepDueCapped(acc) == acc >= fixedTimeStep /\ acc < 2 * fixedTimeStep

\* the condition of the fixed-step while loop
StepDue(acc) == acc >= fixedTimeStep

\* the two positions handed to glm::mix in the wrong order
MixSwapped(x, y, num) == (y * (fixedTimeStep - num) + x * num) \div fixedTimeStep

\* glm::mix(x, y, a) = x * (1 - a) + y * a with a = num / fixedTimeStep
Mix(x, y, num) == (x * (fixedTimeStep - num) + y * num) \div fixedTimeStep

\* the snapshot loops of the fixed-step loop
SnapshotPrevious(comps, pos) ==
    [i \in 1..Len(comps) |->
        IF IsInterpolated(comps[i])
        THEN [comps[i] EXCEPT !.previousPosition = pos[comps[i].owner]]
        ELSE comps[i]]

SnapshotCurrent(comps, pos) ==
    [i \in 1..Len(comps) |->
        IF IsInterpolated(comps[i])
        THEN [comps[i] EXCEPT !.currentPosition = pos[comps[i].owner]]
        ELSE comps[i]]

\* the interpolation loop, from component i on
RECURSIVE Interpolate(_, _, _, _)
Interpolate(pos, comps, num, i) ==
    IF i > Len(comps) THEN pos
    ELSE IF IsInterpolated(comps[i])
         THEN Interpolate(
                [pos EXCEPT ![comps[i].owner] =
                    Mix(comps[i].previousPosition, comps[i].currentPosition, num)],
                comps, num, i + 1)
         ELSE Interpolate(pos, comps, num, i + 1)

\* while (renderer->isRunning()) { currentTime = glfwGetTime(); ... }
\* the window may be closed between any two frames
FrameStart ==
    /\ pc = "check"
    /\ frames < MaxFrames
    /\ \E m \in -1..MaxDelta :
          /\ measured' = m
          /\ deltaTime' = EffectiveDelta(m)
    /\ frames' = frames + 1
    /\ frameLog' = <<>>
    /\ pc' = "poll"
    /\ UNCHANGED <<swapAcquired, accumulator, alpha, gameDt, compDt, fixedDt, dtTotal, stepsTotal>>
    /\ UNCHANGED <<sceneVars, physVars, queryVars>>
    /\ UNCHANGED auxVars

LoopExit ==
    /\ pc = "check"
    /\ pc' = "ended"
    /\ UNCHANGED <<swapAcquired, frames, measured, deltaTime, accumulator, alpha, gameDt,
                   compDt, fixedDt, frameLog, dtTotal, stepsTotal>>
    /\ UNCHANGED <<sceneVars, physVars, queryVars>>
    /\ UNCHANGED auxVars

\* glfwPollEvents(); Input::update();
PollEvents ==
    /\ pc = "poll"
    /\ frameLog' = Append(frameLog, "poll")
    /\ pc' = "gameUpdate"
    /\ UNCHANGED <<swapAcquired, frames, measured, deltaTime, accumulator, alpha, gameDt,
                   compDt, fixedDt, dtTotal, stepsTotal>>
    /\ UNCHANGED <<sceneVars, physVars, queryVars>>
    /\ UNCHANGED auxVars

\* game->onUpdate(deltaTime)
GameUpdate ==
    /\ pc = "gameUpdate"
    /\ gameDt' = deltaTime
    /\ frameLog' = Append(frameLog, "gameUpdate")
    /\ pc' = "sceneUpdate"
    /\ UNCHANGED <<swapAcquired, frames, measured, deltaTime, accumulator, alpha,
                   compDt, fixedDt, dtTotal, stepsTotal>>
    /\ UNCHANGED <<sceneVars, physVars, queryVars>>
    /\ UNCHANGED auxVars

\* if (game->currentScene) updateScene(game->currentScene, deltaTime);
\* accumulator += deltaTime;
SceneUpdate ==
    /\ pc = "sceneUpdate"
    /\ IF hasScene
       THEN /\ compDt' = deltaTime
            /\ frameLog' = Append(frameLog, "componentUpdate")
       ELSE UNCHANGED <<compDt, frameLog>>
    /\ accumulator' = accumulator + deltaTime
    /\ dtTotal' = dtTotal + deltaTime
    /\ pc' = "loopTest"
    /\ UNCHANGED <<swapAcquired, frames, measured, deltaTime, alpha, gameDt, fixedDt, stepsTotal>>
    /\ UNCHANGED <<sceneVars, physVars, queryVars>>
    /\ UNCHANGED auxVars

\* while (accumulator >= fixedTimeStep) { "STORE PREVIOUS POSITIONS" ...
StorePrevious ==
    /\ pc = "loopTest"
    /\ StepDue(accumulator)
    /\ components' = IF hasScene THEN SnapshotPrevious(components, position)
                     ELSE components
    /\ frameLog' = Append(frameLog, "storePrevious")
    /\ pc' = "fixedUpdate"
    /\ UNCHANGED <<swapAcquired, frames, measured, deltaTime, accumulator, alpha, gameDt,
                   compDt, fixedDt, dtTotal, stepsTotal>>
    /\ UNCHANGED <<hasScene, hasCamera, position, active, nObjects, gameObjects>>
    /\ UNCHANGED <<physVars, queryVars>>
    /\ UNCHANGED auxVars

\* the fixed-step calls handed the frame's variable delta
FixedDeltaTimeOfFrame(dt) == dt

\* the step size Engine::run passes to updateSceneFixed and to
\* CollisionSystem::update in a frame whose deltaTime is dt
FixedDeltaTime(dt) == fixedTimeStep

\* updateSceneFixed(scene, fixedTimeStep); collisionSystem->update(scene,
\* fixedTimeStep): reset grounded, push kinematic transforms, step, sync;
\* the steps of the frame loop report no contact
FixedUpdate ==
    /\ pc = "fixedUpdate"
    /\ IF hasScene
       THEN /\ fixedDt' = FixedDeltaTime(deltaTime)
            /\ IF initialized
               THEN /\ frameLog' = frameLog \o <<"fixedUpdate", "collisionUpdate">>
                    /\ \E mv \in [DynamicBodies(bodies) -> 0..MaxStepMove] :
                         LET st == Update(position, components, bodies,
                                          bodyToGameObject, colliders, active,
                                          mv, <<>>)
                         IN /\ bodies' = st.bodies
                            /\ position' = st.pos
                            /\ components' = st.comps
               ELSE /\ frameLog' = Append(frameLog, "fixedUpdate")
                    /\ UNCHANGED <<bodies, position, components>>
       ELSE UNCHANGED <<fixedDt, frameLog, bodies, position, components>>
    /\ pc' = "storeCurrent"
    /\ UNCHANGED <<swapAcquired, frames, measured, deltaTime, accumulator, alpha, gameDt,
                   compDt, dtTotal, stepsTotal>>
    /\ UNCHANGED <<hasScene, hasCamera, active, nObjects, gameObjects>>
    /\ UNCHANGED <<initialized, atInit, colliders, bodyToGameObject,
                   debugDrawEnabled, debugVars, queryVars>>
    /\ UNCHANGED auxVars

\* "STORE CURRENT POSITIONS"; accumulator -= fixedTimeStep; }
StoreCurrent ==
    /\ pc = "storeCurrent"
    /\ components' = IF hasScene THEN SnapshotCurrent(components, position)
                     ELSE components
    /\ accumulator' = accumulator - fixedTimeStep
    /\ stepsTotal' = stepsTotal + 1
    /\ frameLog' = Append(frameLog, "storeCurrent")
    /\ pc' = "loopTest"
    /\ UNCHANGED <<swapAcquired, frames, measured, deltaTime, alpha, gameDt, compDt, fixedDt,
                   dtTotal>>
    /\ UNCHANGED <<hasScene, hasCamera, position, active, nObjects, gameObjects>>
    /\ UNCHANGED <<physVars, queryVars>>
    /\ UNCHANGED auxVars

\* float alpha = accumulator / fixedTimeStep; the interpolation loop
InterpolatePositions ==
    /\ pc = "loopTest"
    /\ ~StepDue(accumulator)
    /\ alpha' = accumulator
    /\ position' = IF hasScene THEN Interpolate(position, components, accumulator, 1)
                   ELSE position
    /\ frameLog' = Append(frameLog, "interpolate")
    /\ pc' = "render"
    /\ UNCHANGED <<swapAcquired, frames, measured, deltaTime, accumulator, gameDt, compDt,
                   fixedDt, dtTotal, stepsTotal>>
    /\ UNCHANGED <<hasScene, hasCamera, active, nObjects, gameObjects, components>>
    /\ UNCHANGED <<physVars, queryVars>>
    /\ UNCHANGED auxVars

\* ------------------------------------------- CollisionSystem::drawDebugShapes
\* JPH::Color::sYellow and JPH::Color::sGreen, as r, g, b, a bytes
sYellow == <<255, 255, 0, 255>>
sGreen == <<0, 255, 0, 255>>

\* "Draw 12 edges": the lines of one bounding box
BoxEdges == 12

\* JoltDebugRenderer::DrawLine: the list with one more line; "inColor.r /
\* 255.0f" keeps each colour byte k as the float k / 255, held here as the
\* numerator over the denominator
DrawLine(ls, body, edge, color) ==
    Append(ls, [body |-> body, edge |-> edge,
                color |-> [c \in 1..4 |-> <<color[c], 255>>]])

\* "static_cast<uint8_t>(line.color.r * 255.0f)" of a stored channel
ColorByte(ch) == (ch[1] * 255) \div ch[2]

\* the three DrawLine calls per triangle of one mesh body, from triangle t on
RECURSIVE DrawMesh(_, _, _, _)
DrawMesh(ls, b, n, t) ==
    IF t > n THEN ls
    ELSE DrawMesh(DrawLine(DrawLine(DrawLine(ls, b, <<"tri", t, 1>>, sYellow),
                                    b, <<"tri", t, 2>>, sYellow),
                           b, <<"tri", t, 3>>, sYellow),
                  b, n, t + 1)

\* the DrawLine calls for the bounding box of one body, from edge e on
RECURSIVE DrawBox(_, _, _)
DrawBox(ls, b, e) ==
    IF e > BoxEdges THEN ls
    ELSE DrawBox(DrawLine(ls, b, <<"box", e>>, sGreen), b, e + 1)

\* PART 1, "for (const auto& pair : bodyToGameObject)" from body b on: the
\* bodies that are static and have a mesh shape are drawn triangle by triangle
RECURSIVE DrawStaticMeshes(_, _, _, _)
DrawStaticMeshes(ls, world, map, b) ==
    IF b > Len(world) THEN ls
    ELSE DrawStaticMeshes(
             IF b \in DOMAIN map /\ world[b].motionType = "Static"
                /\ world[b].triangles > 0
             THEN DrawMesh(ls, b, world[b].triangles, 1) ELSE ls,
             world, map, b + 1)

\* "Draw cached static lines": each cached line is drawn again with its
\* colour taken back to bytes, from line k on
RECURSIVE DrawCached(_, _, _)
DrawCached(ls, cache, k) ==
    IF k > Len(cache) THEN ls
    ELSE DrawCached(DrawLine(ls, cache[k].body, cache[k].edge,
                             [c \in 1..4 |-> ColorByte(cache[k].color[c])]),
                    cache, k + 1)

\* PART 2, from body b on: every body that is not static gets its box
RECURSIVE DrawDynamicBodies(_, _, _, _)
DrawDynamicBodies(ls, world, map, b) ==
    IF b > Len(world) THEN ls
    ELSE DrawDynamicBodies(
             IF b \in DOMAIN map /\ world[b].motionType # "Static"
             THEN DrawBox(ls, b, 1) ELSE ls,
             world, map, b + 1)

\* drawDebugShapes without the clear() at its start
DrawDebugShapesNoClear(dbg, enabled, ready, world, map) ==
    IF ~enabled \/ ~ready THEN dbg
    ELSE LET cache == IF dbg.cached THEN dbg.cachedLines
                      ELSE DrawStaticMeshes(dbg.lines, world, map, 1)
         IN [cached |-> TRUE, cachedLines |-> cache,
             lines |-> DrawDynamicBodies(
                           DrawCached(IF dbg.cached THEN dbg.lines ELSE <<>>,
                                      cache, 1),
                           world, map, 1)]

\* CollisionSystem::drawDebugShapes on the debug state dbg = [cached,
\* cachedLines, lines]; ready says the physics system exists
DrawDebugShapes(dbg, enabled, ready, world, map) ==
    IF ~enabled \/ ~ready THEN dbg
    ELSE LET cache == IF dbg.cached THEN dbg.cachedLines
                      ELSE DrawStaticMeshes(<<>>, world, map, 1)
         IN [cached |-> TRUE, cachedLines |-> cache,
             lines |-> DrawDynamicBodies(DrawCached(<<>>, cache, 1),
                                         world, map, 1)]

\* the debug state of the collision system
DebugState ==
    [cached |-> m_staticLinesCached, cachedLines |-> m_cachedStaticLines,
     lines |-> lines]

\* ---------------------------------------------------- Renderer::renderScene
\* "if (scene && scene->collisionSystem && ...->isDebugDrawEnabled())"
DebugPassDue == hasScene /\ initialized /\ debugDrawEnabled

\* renderScene that never records the UI pass
RenderSceneLogNoUi(debugDue, uiCallback, swapOk) ==
    <<"poll", "silhouette", "main", "outline">>
    \o (IF debugDue THEN <<"debug">> ELSE <<>>)
    \o (IF swapOk THEN <<"blit">> ELSE <<>>)
    \o <<"submit", "present">>

\* renderScene with the UI pass recorded ahead of the debug pass
RenderSceneLogUiFirst(debugDue, uiCallback, swapOk) ==
    <<"poll", "silhouette", "main", "outline">>
    \o (IF uiCallback THEN <<"ui">> ELSE <<>>)
    \o (IF debugDue THEN <<"debug">> ELSE <<>>)
    \o (IF swapOk THEN <<"blit">> ELSE <<>>)
    \o <<"submit", "present">>

\* the body of renderScene: what one call polls, records and presents, in
\* order; uiCallback says whether a callback was passed, swapOk whether
\* renderBlitPass acquired the swap-chain texture view
RenderSceneLog(debugDue, uiCallback, swapOk) ==
    <<"poll", "silhouette", "main", "outline">>
    \o (IF debugDue THEN <<"debug">> ELSE <<>>)
    \o (IF uiCallback THEN <<"ui">> ELSE <<>>)
    \o (IF swapOk THEN <<"blit">> ELSE <<>>)
    \o <<"submit", "present">>

\* the render test with the camera left out
RenderDueSceneOnly(scene, camera) == scene

\* "if (game->currentScene && game->mainCamera)"
RenderDue(scene, camera) == scene /\ camera

\* if (game->currentScene && game->mainCamera) renderer->renderScene(...,
\* [this]() { game->onRenderUI(); }); the debug pass of renderScene calls
\* drawDebugShapes
Render ==
    /\ pc = "render"
    /\ RenderDue(hasScene, hasCamera)
    /\ \E swapOk \in BOOLEAN :
          /\ swapAcquired' = swapOk
          /\ frameLog' = frameLog \o RenderSceneLog(DebugPassDue, TRUE, swapOk)
    /\ LET dbg == IF DebugPassDue
                  THEN DrawDebugShapes(DebugState, debugDrawEnabled, initialized,
                                       bodies, bodyToGameObject)
                  ELSE DebugState
       IN /\ m_staticLinesCached' = dbg.cached
          /\ m_cachedStaticLines' = dbg.cachedLines
          /\ lines' = dbg.lines
    /\ pc' = "check"
    /\ UNCHANGED <<frames, measured, deltaTime, accumulator, alpha, gameDt,
                   compDt, fixedDt, dtTotal, stepsTotal>>
    /\ UNCHANGED <<initialized, atInit, colliders, bodyToGameObject, bodies,
                   debugDrawEnabled>>
    /\ UNCHANGED <<sceneVars, queryVars>>
    /\ UNCHANGED auxVars

SkipRender ==
    /\ pc = "render"
    /\ ~RenderDue(hasScene, hasCamera)
    /\ pc' = "check"
    /\ UNCHANGED <<swapAcquired, frames, measured, deltaTime, accumulator, alpha, gameDt,
                   compDt, fixedDt, frameLog, dtTotal, stepsTotal>>
    /\ UNCHANGED <<sceneVars, physVars, queryVars>>
    /\ UNCHANGED auxVars

\* ------------------------------------------------------------------ scenes
\* a component as Scene::addComponent creates it and the scene's onLoad
\* then configures it
Comp(kind, obj, enabled, kinematic) ==
    [NewComponent(kind, obj) EXCEPT !.enabled = enabled, !.isKinematic = kinematic]

\* a Collider whose onLoad-assigned center is one unit off its owner
OffCentre(obj) == [Comp("Collider", obj, TRUE, FALSE) EXCEPT !.center = PosScale]

\* scenes a Scene::onLoad can build, with the authored position of each
\* object in whole units: a dynamic body over static ground, a kinematic
\* body, a Rigidbody without Collider, a disabled Collider, a disabled
\* Rigidbody
LoopScenes ==
    { [comps |-> <<OffCentre(1), Comp("Rigidbody", 1, TRUE, FALSE),
                   Comp("Collider", 2, TRUE, FALSE)>>,
       pos |-> [o \in Objs |-> IF o = 1 THEN 1 ELSE 0]],
      [comps |-> <<Comp("Rigidbody", 1, TRUE, TRUE), OffCentre(1)>>,
       pos |-> [o \in Objs |-> 1]],
      [comps |-> <<Comp("Rigidbody", 1, TRUE, FALSE)>>,
       pos |-> [o \in Objs |-> IF o = 1 THEN 2 ELSE 0]],
      [comps |-> <<Comp("Collider", 1, FALSE, FALSE), Comp("Rigidbody", 1, TRUE, FALSE)>>,
       pos |-> [o \in Objs |-> 1]],
      [comps |-> <<Comp("Rigidbody", 1, FALSE, FALSE), Comp("Collider", 1, TRUE, FALSE)>>,
       pos |-> [o \in Objs |-> 0]] }

\* a new CollisionSystem: nothing cached, nothing drawn
IdleDebug ==
    m_staticLinesCached = FALSE /\ m_cachedStaticLines = <<>> /\ lines = <<>>

\* no contact has been reported yet
IdleContacts == contact = <<>> /\ callbacks = <<>> /\ reported = <<>>

\* Animator with its default member values; the owner's mesh is the one
\* the scene's onLoad set
NewAnimator ==
    [clips |-> <<>>, currentClipName |-> NoClip, currentClip |-> NoClip,
     currentTime |-> 0, currentFrame |-> 0, playbackSpeed |-> 1,
     playing |-> FALSE, paused |-> FALSE, meshName |-> <<"cube", 0>>]

\* no Animator operation has run
IdleAnimator ==
    animator = NewAnimator /\ hasMeshComponent = TRUE /\ animCall = <<>>

\* "ZoomUniforms m_zoomUniforms{1.0f, 0.5f, 0.5f, 0.0f}", nothing drawn yet
IdleBlit ==
    /\ m_zoomUniforms = [zoom |-> <<1, 1>>, centerX |-> <<1, 2>>, centerY |-> <<1, 2>>]
    /\ sample = <<>>

\* Renderer::init has run: no mesh is registered
IdleMeshes == m_meshes = <<>> /\ lastLoad = <<>> /\ lookup = <<>>

\* no scene has been made by the game
IdleLifecycle ==
    /\ currentScene = 0 /\ scenes = <<>> /\ systems = <<>>
    /\ lifeLog = <<>> /\ shutDown = FALSE

\* Game::currentScene is nullptr
IdleScene ==
    /\ hasScene = FALSE /\ hasCamera = FALSE
    /\ position = [o \in Objs |-> 0]
    /\ active = [o \in Objs |-> TRUE]
    /\ nObjects = 0
    /\ gameObjects = {}
    /\ components = <<>> /\ atInit = <<>>
    /\ initialized = FALSE
    /\ colliders = <<>> /\ bodyToGameObject = <<>> /\ bodies = <<>>
    /\ debugDrawEnabled = FALSE
    /\ IdleDebug

\* the parts of the program a specification does not exercise are at rest
InitAux == IdleContacts /\ IdleLifecycle /\ IdleMeshes /\ IdleBlit /\ IdleAnimator

\* Engine::init has run Game::onInit: either no scene was loaded, or
\* Game::loadScene ran onLoad and initialized a new CollisionSystem
InitEngine ==
    /\ frames = 0 /\ measured = 0 /\ deltaTime = 0 /\ accumulator = 0
    /\ alpha = 0 /\ gameDt = 0 /\ compDt = 0 /\ fixedDt = 0
    /\ frameLog = <<>> /\ swapAcquired = FALSE
    /\ dtTotal = 0 /\ stepsTotal = 0
    /\ layerQuery = <<>> /\ validateResult = <<>>

Init ==
    /\ InitEngine
    /\ InitAux
    /\ IdleDebug
    /\ pc = "check"
    /\ hasCamera \in BOOLEAN
    /\ active = [o \in Objs |-> TRUE]
    /\ nObjects = NumObjects
    /\ gameObjects = 1..NumObjects
    /\ \/ /\ hasScene = FALSE
          /\ position = [o \in Objs |-> 0]
          /\ components = <<>> /\ atInit = <<>>
          /\ initialized = FALSE
          /\ colliders = <<>> /\ bodyToGameObject = <<>> /\ bodies = <<>>
          /\ debugDrawEnabled = FALSE
       \/ /\ hasScene = TRUE
          /\ \E sc \in LoopScenes :
               LET pos0 == [o \in Objs |-> sc.pos[o] * PosScale]
                   st == Initialize(sc.comps, pos0)
               IN /\ position = pos0
                  /\ atInit = sc.comps
                  /\ components = st.components
                  /\ colliders = st.colliders
                  /\ bodyToGameObject = st.bodyToGameObject
                  /\ bodies = st.bodies
          /\ initialized = TRUE
          /\ debugDrawEnabled \in BOOLEAN

Next ==
    \/ FrameStart
    \/ LoopExit
    \/ PollEvents
    \/ GameUpdate
    \/ SceneUpdate
    \/ StorePrevious
    \/ FixedUpdate
    \/ StoreCurrent
    \/ InterpolatePositions
    \/ Render
    \/ SkipRender

Spec == Init /\ [][Next]_vars

\* the frame loop over a physics world without dynamic bodies
InitLoop == Init /\ DynamicBodies(bodies) = {}

\* Engine::run keeps executing: no statement of the loop body blocks
SpecLoop == InitLoop /\ [][Next]_vars /\ WF_vars(Next)

\* glm::mix is computed without rounding in every interpolation
MixExact ==
    pc = "loopTest" =>
        \A i \in 1..Len(components) :
            IsInterpolated(components[i]) =>
                (components[i].previousPosition * (fixedTimeStep - accumulator)
                 + components[i].currentPosition * accumulator) % fixedTimeStep = 0
                \/ StepDue(accumulator)

\* ----------------------------------------------------- scene construction
\* Scene::createGameObject
CreateGameObject ==
    /\ pc \in {"onLoad", "loaded"}
    /\ nObjects < NumObjects
    /\ nObjects' = nObjects + 1
    /\ gameObjects' = gameObjects \cup {nObjects + 1}
    /\ UNCHANGED <<engineVars, hasScene, hasCamera, position, active, components>>
    /\ UNCHANGED <<physVars, queryVars>>
    /\ UNCHANGED auxVars

\* Scene::addComponent<T>(obj) for T = Collider or Rigidbody
AddComponent ==
    /\ pc \in {"onLoad", "loaded"}
    /\ Len(components) < MaxComponents
    /\ \E kind \in {"Collider", "Rigidbody"}, obj \in gameObjects :
          components' = Append(components, NewComponent(kind, obj))
    /\ UNCHANGED <<engineVars, hasScene, hasCamera, position, active, nObjects, gameObjects>>
    /\ UNCHANGED <<physVars, queryVars>>
    /\ UNCHANGED auxVars

\* game code writes Component::enabled
SetEnabled ==
    /\ pc = "onLoad"
    /\ \E i \in 1..Len(components), b \in BOOLEAN :
          /\ components[i].enabled # b
          /\ components' = [components EXCEPT ![i].enabled = b]
    /\ UNCHANGED <<engineVars, hasScene, hasCamera, position, active, nObjects, gameObjects>>
    /\ UNCHANGED <<physVars, queryVars>>
    /\ UNCHANGED auxVars

\* game code writes Rigidbody::isKinematic
SetKinematic ==
    /\ pc = "onLoad"
    /\ \E i \in 1..Len(components), b \in BOOLEAN :
          /\ components[i].kind = "Rigidbody"
          /\ components[i].isKinematic # b
          /\ components' = [components EXCEPT ![i].isKinematic = b]
    /\ UNCHANGED <<engineVars, hasScene, hasCamera, position, active, nObjects, gameObjects>>
    /\ UNCHANGED <<physVars, queryVars>>
    /\ UNCHANGED auxVars

\* Game::loadScene after onLoad: collisionSystem = new CollisionSystem();
\* collisionSystem->initialize(currentScene);
LoadInitialize ==
    /\ pc = "onLoad"
    /\ LET st == Initialize(components, position)
       IN /\ components' = st.components
          /\ colliders' = st.colliders
          /\ bodyToGameObject' = st.bodyToGameObject
          /\ bodies' = st.bodies
    /\ atInit' = components
    /\ initialized' = TRUE
    /\ pc' = "loaded"
    /\ UNCHANGED <<swapAcquired, frames, measured, deltaTime, accumulator, alpha, gameDt,
                   compDt, fixedDt, frameLog, dtTotal, stepsTotal>>
    /\ UNCHANGED <<hasScene, hasCamera, position, active, nObjects, gameObjects>>
    /\ UNCHANGED <<debugDrawEnabled, debugVars, queryVars>>
    /\ UNCHANGED auxVars

\* Game::loadScene(scene) has made the scene current and is about to run
\* its onLoad
InitScene ==
    /\ InitEngine
    /\ InitAux
    /\ pc = "onLoad"
    /\ hasScene = TRUE /\ hasCamera = FALSE
    /\ position = [o \in Objs |-> 0]
    /\ active = [o \in Objs |-> TRUE]
    /\ nObjects = 0
    /\ gameObjects = {}
    /\ components = <<>> /\ atInit = <<>>
    /\ initialized = FALSE
    /\ colliders = <<>> /\ bodyToGameObject = <<>> /\ bodies = <<>>
    /\ debugDrawEnabled = FALSE
    /\ IdleDebug

NextScene ==
    \/ CreateGameObject
    \/ AddComponent
    \/ SetEnabled
    \/ SetKinematic
    \/ LoadInitialize

SpecScene == InitScene /\ [][NextScene]_vars

\* ------------------------------------------------- destroying GameObjects
\* Scene::destroyGameObject(obj) for an obj found in gameObjects: the object
\* is erased from gameObjects and deleted; scene->components is not touched
DestroyGameObject ==
    /\ pc = "onLoad"
    /\ \E obj \in gameObjects :
          gameObjects' = gameObjects \ {obj}
    /\ UNCHANGED <<engineVars, hasScene, hasCamera, position, active, nObjects,
                   components>>
    /\ UNCHANGED <<physVars, queryVars>>
    /\ UNCHANGED auxVars

NextObjects ==
    \/ CreateGameObject
    \/ AddComponent
    \/ DestroyGameObject

\* the scene's onLoad creates GameObjects, adds components and destroys
\* GameObjects
SpecObjects == InitScene /\ [][NextObjects]_vars

\* ---------------------------------------------------------- layer filtering
\* the & of two uint32_t masks, bit by bit
RECURSIVE BitAnd(_, _)
BitAnd(a, b) ==
    IF a = 0 \/ b = 0 THEN 0
    ELSE (a % 2) * (b % 2) + 2 * BitAnd(a \div 2, b \div 2)

\* shouldCollideWith with || for &&
ShouldCollideWithEither(comps, this, other) ==
    IF other = 0 THEN FALSE
    ELSE \/ BitAnd(comps[this].collisionLayer, comps[other].collisionMask) # 0
         \/ BitAnd(comps[other].collisionLayer, comps[this].collisionMask) # 0

\* Collider::shouldCollideWith(other); this and other are indices into
\* comps, other = 0 for nullptr
ShouldCollideWith(comps, this, other) ==
    IF other = 0 THEN FALSE
    ELSE LET thisInOtherMask ==
                 BitAnd(comps[this].collisionLayer, comps[other].collisionMask) # 0
             otherInThisMask ==
                 BitAnd(comps[other].collisionLayer, comps[this].collisionMask) # 0
         IN thisInOtherMask /\ otherInThisMask

\* ContactListenerImpl::OnContactValidate for the bodies b1 and b2
OnContactValidate(comps, map, b1, b2) ==
    LET obj1 == GetGameObjectFromBodyID(map, b1)
        obj2 == GetGameObjectFromBodyID(map, b2)
        col1 == GetComponent(comps, obj1, "Collider")
        col2 == GetComponent(comps, obj2, "Collider")
    IN IF obj1 = NoObject \/ obj2 = NoObject THEN "Accept"
       ELSE IF col1 = 0 \/ col2 = 0 THEN "Accept"
       ELSE IF ~ShouldCollideWith(comps, col1, col2) THEN "Reject"
       ELSE "Accept"

\* layer and mask values game code assigns: single layers, None, All and a
\* combination
LayerValues == {None, Player, Ground, Wall, Player + Ground, All}

\* game code calls a->shouldCollideWith(b), b possibly nullptr
QueryShouldCollide ==
    /\ pc = "layers"
    /\ \E this \in 1..Len(components), other \in 0..Len(components) :
          layerQuery' = <<this, other, ShouldCollideWith(components, this, other)>>
    /\ UNCHANGED <<engineVars, sceneVars, physVars, validateResult>>
    /\ UNCHANGED auxVars

\* the physics step asks the contact listener to validate a body pair
ValidateContact ==
    /\ pc = "layers"
    /\ \E b1 \in 1..Len(bodies), b2 \in 1..Len(bodies) :
          /\ b1 # b2
          /\ validateResult' =
                <<b1, b2, OnContactValidate(components, bodyToGameObject, b1, b2)>>
    /\ UNCHANGED <<engineVars, sceneVars, physVars, layerQuery>>
    /\ UNCHANGED auxVars

\* a loaded scene of two GameObjects with one Collider each, whose layers
\* and masks the scene's onLoad has assigned
InitLayers ==
    /\ InitEngine
    /\ InitAux
    /\ pc = "layers"
    /\ hasScene = TRUE /\ hasCamera = FALSE
    /\ position = [o \in Objs |-> 0]
    /\ active = [o \in Objs |-> TRUE]
    /\ nObjects = NumObjects
    /\ gameObjects = 1..NumObjects
    /\ \E l1 \in LayerValues, m1 \in LayerValues, l2 \in LayerValues, m2 \in LayerValues :
          LET comps == << [NewComponent("Collider", 1) EXCEPT
                              !.collisionLayer = l1, !.collisionMask = m1],
                          [NewComponent("Collider", 2) EXCEPT
                              !.collisionLayer = l2, !.collisionMask = m2] >>
              st == Initialize(comps, position)
          IN /\ atInit = comps
             /\ components = st.components
             /\ colliders = st.colliders
             /\ bodyToGameObject = st.bodyToGameObject
             /\ bodies = st.bodies
    /\ initialized = TRUE
    /\ debugDrawEnabled = FALSE
    /\ IdleDebug

NextLayers ==
    \/ QueryShouldCollide
    \/ ValidateContact

SpecLayers == InitLayers /\ [][NextLayers]_vars

\* --------------------------------------------------------- contact listener
\* world-space contact normals <<x, z>> of unit length, from straight down
\* to straight up, with both sides of the 0.6 threshold
Normals == { <<0, -NormalScale>>, <<6, -8>>, <<8, -6>>, <<NormalScale, 0>>,
             <<8, 6>>, <<6, 8>>, <<0, NormalScale>> }

\* CollisionSystem::update begins: the grounded flags are reset before the
\* physics step reports this update's contacts
BeginUpdate ==
    /\ pc = "contacts"
    /\ components' = ResetGrounded(components)
    /\ contact' = <<>>
    /\ callbacks' = <<>>
    /\ UNCHANGED <<engineVars, hasScene, hasCamera, position, active, nObjects, gameObjects>>
    /\ UNCHANGED <<physVars, queryVars, reported, lifeVars, meshVars, blitVars, animVars>>

\* the physics step reports a new contact between two bodies
ContactAdded ==
    /\ pc = "contacts"
    /\ \E b1 \in 1..Len(bodies), b2 \in 1..Len(bodies), n \in Normals :
          /\ b1 # b2
          /\ LET r == OnContactAdded(components, bodyToGameObject, b1, b2, n)
             IN /\ components' = r.components
                /\ callbacks' = r.callbacks
          /\ contact' = <<"added", b1, b2, n>>
    /\ UNCHANGED <<engineVars, hasScene, hasCamera, position, active, nObjects, gameObjects>>
    /\ UNCHANGED <<physVars, queryVars, reported, lifeVars, meshVars, blitVars, animVars>>

\* the physics step reports a contact that lasts
ContactPersisted ==
    /\ pc = "contacts"
    /\ \E b1 \in 1..Len(bodies), b2 \in 1..Len(bodies), n \in Normals :
          /\ b1 # b2
          /\ LET r == OnContactPersisted(components, bodyToGameObject, b1, b2, n)
             IN /\ components' = r.components
                /\ callbacks' = r.callbacks
          /\ contact' = <<"persisted", b1, b2, n>>
    /\ UNCHANGED <<engineVars, hasScene, hasCamera, position, active, nObjects, gameObjects>>
    /\ UNCHANGED <<physVars, queryVars, reported, lifeVars, meshVars, blitVars, animVars>>

\* a Collider as the scene's onLoad configures it
TriggerCollider(obj, trigger) ==
    [NewComponent("Collider", obj) EXCEPT !.isTrigger = trigger,
                                          !.collisionLayer = Player]

\* loaded scenes of two GameObjects with one Collider each, trigger or
\* solid, with or without a Rigidbody; in the last layout the first object
\* carries a second Collider, a trigger, behind its solid one
ContactScenes ==
    { <<TriggerCollider(1, t1), TriggerCollider(2, t2)>>
        \o (IF r1 THEN <<NewComponent("Rigidbody", 1)>> ELSE <<>>)
        \o (IF r2 THEN <<NewComponent("Rigidbody", 2)>> ELSE <<>>) :
        t1 \in BOOLEAN, t2 \in BOOLEAN, r1 \in BOOLEAN, r2 \in BOOLEAN }
    \cup { <<TriggerCollider(1, FALSE), TriggerCollider(1, TRUE),
             TriggerCollider(2, FALSE), NewComponent("Rigidbody", 1)>> }

InitContacts ==
    /\ InitEngine
    /\ IdleAnimator
    /\ IdleBlit
    /\ IdleMeshes
    /\ IdleContacts
    /\ IdleLifecycle
    /\ pc = "contacts"
    /\ hasScene = TRUE /\ hasCamera = FALSE
    /\ position = [o \in Objs |-> 0]
    /\ active = [o \in Objs |-> TRUE]
    /\ nObjects = NumObjects
    /\ gameObjects = 1..NumObjects
    /\ \E comps \in ContactScenes :
          LET st == Initialize(comps, position)
          IN /\ atInit = comps
             /\ components = st.components
             /\ colliders = st.colliders
             /\ bodyToGameObject = st.bodyToGameObject
             /\ bodies = st.bodies
    /\ initialized = TRUE
    /\ debugDrawEnabled = FALSE
    /\ IdleDebug

NextContacts ==
    \/ BeginUpdate
    \/ ContactAdded
    \/ ContactPersisted

SpecContacts == InitContacts /\ [][NextContacts]_vars

\* ------------------------------------------------------- scene lifecycle
\* Scene::~Scene for the scene s holding n components and m GameObjects:
\* what it calls and frees, in order
DestroyScene(s, n, m) ==
    [k \in 1..(2 * n) |->
        IF k % 2 = 1 THEN <<"onDestroy", s, (k + 1) \div 2>>
        ELSE <<"deleteComponent", s, k \div 2>>]
    \o [o \in 1..m |-> <<"deleteObject", s, o>>]

\* the first part of Game::loadScene, "if (currentScene) { ... }": the
\* heaps afterwards and the calls made
UnloadCurrent(scs, sys, cur) ==
    IF cur = 0 THEN [scenes |-> scs, systems |-> sys, log |-> <<>>]
    ELSE LET cs == scs[cur].collisionSystem
         IN [scenes |-> [scs EXCEPT ![cur].alive = FALSE, ![cur].collisionSystem = 0],
             systems |-> IF cs # 0 THEN [sys EXCEPT ![cs].alive = FALSE] ELSE sys,
             log |-> (IF cs # 0 THEN << <<"deleteSystem", cur, cs>> >> ELSE <<>>)
                     \o << <<"onUnload", cur, 0>> >>
                     \o DestroyScene(cur, scs[cur].nComponents, scs[cur].nObjects)]

\* game code makes a new Scene and calls Game::loadScene(scene), whose
\* onLoad creates m GameObjects and n components
LoadScene ==
    /\ pc = "life"
    /\ ~shutDown
    /\ Len(scenes) < MaxScenes
    /\ \E n \in 0..MaxComponents, m \in 0..NumObjects :
          /\ (n > 0 => m > 0)
          /\ LET u == UnloadCurrent(scenes, systems, currentScene)
                 s == Len(scenes) + 1
                 cs == Len(systems) + 1
             IN /\ scenes' = Append(u.scenes,
                                [alive |-> TRUE, nComponents |-> n, nObjects |-> m,
                                 collisionSystem |-> cs])
                /\ systems' = Append(u.systems, [alive |-> TRUE, scene |-> s])
                /\ currentScene' = s
                /\ lifeLog' = u.log \o << <<"onLoad", s, 0>>, <<"newSystem", s, cs>>,
                                          <<"initialize", s, cs>> >>
    /\ UNCHANGED shutDown
    /\ UNCHANGED <<engineVars, sceneVars, physVars, queryVars, contactVars, meshVars, blitVars, animVars>>

\* game code calls Game::loadScene(nullptr)
LoadNoScene ==
    /\ pc = "life"
    /\ ~shutDown
    /\ currentScene # 0
    /\ LET u == UnloadCurrent(scenes, systems, currentScene)
       IN /\ scenes' = u.scenes
          /\ systems' = u.systems
          /\ lifeLog' = u.log
    /\ currentScene' = 0
    /\ UNCHANGED shutDown
    /\ UNCHANGED <<engineVars, sceneVars, physVars, queryVars, contactVars, meshVars, blitVars, animVars>>

\* Engine::shutdown calls Game::onShutdown; SampleGame::onShutdown:
\* if (currentScene) { onUnload(); delete currentScene; currentScene = nullptr; }
Shutdown ==
    /\ pc = "life"
    /\ ~shutDown
    /\ IF currentScene # 0
       THEN /\ scenes' = [scenes EXCEPT ![currentScene].alive = FALSE]
            /\ lifeLog' = << <<"onUnload", currentScene, 0>> >>
                          \o DestroyScene(currentScene, scenes[currentScene].nComponents,
                                          scenes[currentScene].nObjects)
       ELSE /\ scenes' = scenes
            /\ lifeLog' = <<>>
    /\ currentScene' = 0
    /\ shutDown' = TRUE
    /\ UNCHANGED systems
    /\ UNCHANGED <<engineVars, sceneVars, physVars, queryVars, contactVars, meshVars, blitVars, animVars>>

\* Engine::init is about to run Game::onInit: no scene has been made
InitLifecycle ==
    /\ InitEngine
    /\ IdleAnimator
    /\ IdleBlit
    /\ IdleMeshes
    /\ IdleContacts
    /\ IdleScene
    /\ pc = "life"
    /\ currentScene = 0 /\ scenes = <<>> /\ systems = <<>>
    /\ lifeLog = <<>> /\ shutDown = FALSE

NextLifecycle ==
    \/ LoadScene
    \/ LoadNoScene
    \/ Shutdown

SpecLifecycle == InitLifecycle /\ [][NextLifecycle]_vars

\* ------------------------------------------------------- mesh registry
\* Renderer::getMeshByName: the first mesh of m_meshes with the name, as an
\* index, 0 for nullptr
GetMeshByName(meshes, name) ==
    LET S == {i \in 1..Len(meshes) : meshes[i].name = name}
    IN IF S = {} THEN 0 ELSE CHOOSE i \in S : \A j \in S : i <= j

\* Renderer::loadMesh(name, filepath): geometry is the number of vertices
\* loadGeometryFromObj read from the file, -1 when it returned false;
\* bufferOk says whether createBuffer gave a vertex buffer
LoadMesh(meshes, name, geometry, bufferOk) ==
    IF geometry < 0 THEN [meshes |-> meshes, result |-> FALSE]
    ELSE IF geometry = 0 THEN [meshes |-> meshes, result |-> FALSE]
    ELSE IF ~bufferOk THEN [meshes |-> meshes, result |-> FALSE]
    ELSE [meshes |-> Append(meshes, [name |-> name, vertexCount |-> geometry]),
          result |-> TRUE]

\* names game code registers meshes under
MeshNames == {"cube", "frog"}

\* game code calls Renderer::loadMesh (through Game::loadModel)
CallLoadMesh ==
    /\ pc = "meshes"
    /\ Len(m_meshes) < MaxMeshes
    /\ \E name \in MeshNames, geometry \in -1..MaxVertices, bufferOk \in BOOLEAN :
          LET r == LoadMesh(m_meshes, name, geometry, bufferOk)
          IN /\ m_meshes' = r.meshes
             /\ lastLoad' = [name |-> name, geometry |-> geometry,
                             result |-> r.result, before |-> m_meshes]
    /\ lookup' = <<>>
    /\ UNCHANGED <<engineVars, sceneVars, physVars, queryVars, contactVars, lifeVars, blitVars, animVars>>

\* the renderer or game code calls getMeshByName
CallGetMeshByName ==
    /\ pc = "meshes"
    /\ \E name \in MeshNames :
          lookup' = <<name, GetMeshByName(m_meshes, name)>>
    /\ UNCHANGED <<m_meshes, lastLoad>>
    /\ UNCHANGED <<engineVars, sceneVars, physVars, queryVars, contactVars, lifeVars, blitVars, animVars>>

InitMeshes ==
    /\ InitEngine
    /\ IdleAnimator
    /\ IdleBlit
    /\ IdleContacts
    /\ IdleLifecycle
    /\ IdleScene
    /\ IdleMeshes
    /\ pc = "meshes"

NextMeshes ==
    \/ CallLoadMesh
    \/ CallGetMeshByName

SpecMeshes == InitMeshes /\ [][NextMeshes]_vars

\* ---------------------------------------------------------------- blit pass
\* The f32 values of the blit shader are exact rationals <<numerator,
\* denominator>> with a positive denominator.
RAdd(a, b) == <<a[1] * b[2] + b[1] * a[2], a[2] * b[2]>>
RSub(a, b) == <<a[1] * b[2] - b[1] * a[2], a[2] * b[2]>>
RMul(a, b) == <<a[1] * b[1], a[2] * b[2]>>

\* 1.0 / x for x > 0
RInv(a) == <<a[2], a[1]>>

\* clamp(x, 0.0, 1.0)
RClamp(a) == IF a[1] < 0 THEN <<0, 1>> ELSE IF a[1] > a[2] THEN <<1, 1>> ELSE a

\* i32(x) for x >= 0: the conversion truncates
RTrunc(a) == a[1] \div a[2]

\* vs_main and the rasterizer: the uv of the fragment at pixel i of a
\* target that is OutSize pixels wide is the pixel's centre
FragmentUV(i) == <<2 * i + 1, 2 * OutSize>>

\* fs_main with uvOffset = center, the half range not taken off
FsMainUncentred(uv, zoom, center) ==
    LET invZoom == RInv(zoom)
        uvRange == invZoom
        uvOffset == center
        zoomedUV == RClamp(RAdd(RMul(uv, uvRange), uvOffset))
    IN [zoomedUV |-> zoomedUV,
        pixelCoord |-> RTrunc(RMul(zoomedUV, <<TexSize, 1>>))]

\* fs_main of blit.wgsl on one axis: the clamped source coordinate and the
\* texel textureLoad reads, for a source texture TexSize texels wide
FsMain(uv, zoom, center) ==
    LET invZoom == RInv(zoom)
        uvRange == invZoom
        uvOffset == RSub(center, RMul(uvRange, <<1, 2>>))
        zoomedUV == RClamp(RAdd(RMul(uv, uvRange), uvOffset))
    IN [zoomedUV |-> zoomedUV,
        pixelCoord |-> RTrunc(RMul(zoomedUV, <<TexSize, 1>>))]

\* zoom levels game code sets: zoomed out, none, and zoomed in
ZoomLevels == { <<1, 2>>, <<1, 1>>, <<3, 2>>, <<2, 1>>, <<3, 1>> }

\* zoom centres game code sets, in quarters, from just outside the frame on
\* one side to just outside on the other
ZoomCenters == { <<k, 4>> : k \in -1..5 }

\* Renderer::setZoom; what was drawn under the old uniforms is forgotten
SetZoom ==
    /\ pc = "blit"
    /\ \E z \in ZoomLevels :
          /\ z # m_zoomUniforms.zoom
          /\ m_zoomUniforms' = [m_zoomUniforms EXCEPT !.zoom = z]
    /\ sample' = <<>>
    /\ UNCHANGED <<engineVars, sceneVars, physVars, queryVars, contactVars, lifeVars,
                   meshVars, animVars>>

\* Renderer::setZoomCenter
SetZoomCenter ==
    /\ pc = "blit"
    /\ \E x \in ZoomCenters, y \in ZoomCenters :
          /\ <<x, y>> # <<m_zoomUniforms.centerX, m_zoomUniforms.centerY>>
          /\ m_zoomUniforms' = [m_zoomUniforms EXCEPT !.centerX = x, !.centerY = y]
    /\ sample' = <<>>
    /\ UNCHANGED <<engineVars, sceneVars, physVars, queryVars, contactVars, lifeVars,
                   meshVars, animVars>>

\* renderBlitPass writes the zoom uniforms and draws: fs_main runs for the
\* fragment at pixel <<ix, iy>> of the swap-chain target
ShadeFragment ==
    /\ pc = "blit"
    /\ \E ix \in 0..(OutSize - 1), iy \in 0..(OutSize - 1) :
          sample' = [fragment |-> <<ix, iy>>,
                     x |-> FsMain(FragmentUV(ix), m_zoomUniforms.zoom,
                                  m_zoomUniforms.centerX),
                     y |-> FsMain(FragmentUV(iy), m_zoomUniforms.zoom,
                                  m_zoomUniforms.centerY)]
    /\ UNCHANGED m_zoomUniforms
    /\ UNCHANGED <<engineVars, sceneVars, physVars, queryVars, contactVars, lifeVars,
                   meshVars, animVars>>

InitBlit ==
    /\ InitEngine
    /\ IdleAnimator
    /\ IdleContacts
    /\ IdleLifecycle
    /\ IdleScene
    /\ IdleMeshes
    /\ IdleBlit
    /\ pc = "blit"

NextBlit ==
    \/ SetZoom
    \/ SetZoomCenter
    \/ ShadeFragment

SpecBlit == InitBlit /\ [][NextBlit]_vars

\* ------------------------------------------------------------------ Animator
\* static_cast<int>(a / b) for b > 0: the quotient truncated toward zero
TruncDiv(a, b) == IF a >= 0 THEN a \div b ELSE 0 - ((0 - a) \div b)

\* Animator::setFrame: a is the Animator with its owner's
\* MeshComponent::meshName, hasMesh says whether the owner has a
\* MeshComponent
SetFrame(a, hasMesh, frame) ==
    IF a.currentClip = NoClip THEN a
    ELSE IF frame < 0 \/ frame >= Len(a.clips[a.currentClip].frameNames) THEN a
    ELSE IF ~hasMesh THEN a
    ELSE [a EXCEPT !.meshName = a.clips[a.currentClip].frameNames[frame + 1]]

\* Animator::play that stops the playback when the clip is not found
PlayStopsOnMissing(a, hasMesh, clipName, forceRestart) ==
    IF clipName \notin DOMAIN a.clips
    THEN [a EXCEPT !.playing = FALSE, !.currentTime = 0, !.currentFrame = 0]
    ELSE IF a.currentClipName = clipName /\ a.playing /\ ~forceRestart
    THEN [a EXCEPT !.paused = FALSE]
    ELSE SetFrame([a EXCEPT !.currentClipName = clipName, !.currentClip = clipName,
                            !.currentTime = 0, !.currentFrame = 0,
                            !.playing = TRUE, !.paused = FALSE], hasMesh, 0)

\* Animator::play(clipName, forceRestart)
Play(a, hasMesh, clipName, forceRestart) ==
    IF clipName \notin DOMAIN a.clips THEN a
    ELSE IF a.currentClipName = clipName /\ a.playing /\ ~forceRestart
    THEN [a EXCEPT !.paused = FALSE]
    ELSE SetFrame([a EXCEPT !.currentClipName = clipName, !.currentClip = clipName,
                            !.currentTime = 0, !.currentFrame = 0,
                            !.playing = TRUE, !.paused = FALSE], hasMesh, 0)

\* Animator::stop
Stop(a) == [a EXCEPT !.playing = FALSE, !.paused = FALSE,
                     !.currentTime = 0, !.currentFrame = 0]

\* Animator::pause, Animator::resume, Animator::setSpeed
Pause(a) == [a EXCEPT !.paused = TRUE]
Resume(a) == [a EXCEPT !.paused = FALSE]
SetSpeed(a, speed) == [a EXCEPT !.playbackSpeed = speed]

\* Animator::addClip: clips[clip.name] = clip
AddClip(a, clip) ==
    [a EXCEPT !.clips = [n \in DOMAIN a.clips \cup {clip.name} |->
                            IF n = clip.name THEN clip ELSE a.clips[n]]]

\* Animator::updateAnimation; times are in ticks and a clip's frameTicks is
\* its frame duration 1 / frameRate
UpdateAnimation(a, hasMesh, deltaT) ==
    IF a.currentClip = NoClip THEN a
    ELSE IF a.clips[a.currentClip].frameNames = <<>> THEN a
    ELSE LET clip == a.clips[a.currentClip]
             time == a.currentTime + deltaT * a.playbackSpeed
             totalFrames == Len(clip.frameNames)
             frame == TruncDiv(time, clip.frameTicks)
             wrapped == frame >= totalFrames
             a1 == IF wrapped /\ clip.loop THEN [a EXCEPT !.currentTime = 0]
                   ELSE IF wrapped THEN [a EXCEPT !.currentTime = time, !.playing = FALSE]
                   ELSE [a EXCEPT !.currentTime = time]
             newFrame == IF wrapped /\ clip.loop THEN 0
                         ELSE IF wrapped THEN totalFrames - 1
                         ELSE frame
         IN IF newFrame # a.currentFrame
            THEN SetFrame([a1 EXCEPT !.currentFrame = newFrame], hasMesh, newFrame)
            ELSE a1

\* Animator::onUpdate
OnUpdate(a, hasMesh, deltaT) ==
    IF a.playing /\ ~a.paused /\ a.currentClip # NoClip
    THEN UpdateAnimation(a, hasMesh, deltaT)
    ELSE a

\* clip names game code adds, and a name it only ever plays
ClipNames == {"walk", "idle"}
PlayNames == ClipNames \cup {"jump"}

\* the clips AnimationManager builds, their frames named after the clip
\* and the frame number: "walk" with 0..MaxClipFrames frames, looping or
\* not, and a looping "idle" of one frame
Clips ==
    { [name |-> "walk", frameNames |-> [k \in 1..len |-> <<"walk", k>>],
       frameTicks |-> FrameTicks, loop |-> l] :
        len \in 0..MaxClipFrames, l \in BOOLEAN }
    \cup { [name |-> "idle", frameNames |-> << <<"idle", 1>> >>,
            frameTicks |-> FrameTicks, loop |-> TRUE] }

\* game code calls addClip
CallAddClip ==
    /\ pc = "animator"
    /\ \E clip \in Clips :
          /\ animator' = AddClip(animator, clip)
          /\ animCall' = <<"addClip">>
    /\ UNCHANGED hasMeshComponent
    /\ UNCHANGED <<engineVars, sceneVars, physVars, queryVars, contactVars, lifeVars,
                   meshVars, blitVars>>

\* game code calls play
CallPlay ==
    /\ pc = "animator"
    /\ \E clipName \in PlayNames, forceRestart \in BOOLEAN :
          /\ animator' = Play(animator, hasMeshComponent, clipName, forceRestart)
          /\ animCall' = <<"play", clipName>>
    /\ UNCHANGED hasMeshComponent
    /\ UNCHANGED <<engineVars, sceneVars, physVars, queryVars, contactVars, lifeVars,
                   meshVars, blitVars>>

\* game code calls stop, pause or resume
CallStop ==
    /\ pc = "animator"
    /\ animator' = Stop(animator)
    /\ animCall' = <<"stop">>
    /\ UNCHANGED hasMeshComponent
    /\ UNCHANGED <<engineVars, sceneVars, physVars, queryVars, contactVars, lifeVars,
                   meshVars, blitVars>>

CallPause ==
    /\ pc = "animator"
    /\ animator' = Pause(animator)
    /\ animCall' = <<"pause">>
    /\ UNCHANGED hasMeshComponent
    /\ UNCHANGED <<engineVars, sceneVars, physVars, queryVars, contactVars, lifeVars,
                   meshVars, blitVars>>

CallResume ==
    /\ pc = "animator"
    /\ animator' = Resume(animator)
    /\ animCall' = <<"resume">>
    /\ UNCHANGED hasMeshComponent
    /\ UNCHANGED <<engineVars, sceneVars, physVars, queryVars, contactVars, lifeVars,
                   meshVars, blitVars>>

\* game code calls setSpeed
CallSetSpeed ==
    /\ pc = "animator"
    /\ \E speed \in -1..1 :
          /\ speed # animator.playbackSpeed
          /\ animator' = SetSpeed(animator, speed)
    /\ animCall' = <<"setSpeed">>
    /\ UNCHANGED hasMeshComponent
    /\ UNCHANGED <<engineVars, sceneVars, physVars, queryVars, contactVars, lifeVars,
                   meshVars, blitVars>>

\* Engine::updateScene calls the Animator's onUpdate(deltaTime)
CallOnUpdate ==
    /\ pc = "animator"
    /\ \E deltaT \in 1..MaxAnimDelta :
          /\ animator.currentTime + deltaT * animator.playbackSpeed >= 0 - MaxAnimTime
          /\ animator' = OnUpdate(animator, hasMeshComponent, deltaT)
    /\ animCall' = <<"onUpdate">>
    /\ UNCHANGED hasMeshComponent
    /\ UNCHANGED <<engineVars, sceneVars, physVars, queryVars, contactVars, lifeVars,
                   meshVars, blitVars>>

\* an Animator as Scene::addComponent<Animator> makes it, on an owner with
\* or without a MeshComponent
InitAnimator ==
    /\ InitEngine
    /\ IdleContacts
    /\ IdleLifecycle
    /\ IdleScene
    /\ IdleMeshes
    /\ IdleBlit
    /\ pc = "animator"
    /\ animator = NewAnimator
    /\ animCall = <<>>
    /\ hasMeshComponent \in BOOLEAN

NextAnimator ==
    \/ CallAddClip
    \/ CallPlay
    \/ CallStop
    \/ CallPause
    \/ CallResume
    \/ CallSetSpeed
    \/ CallOnUpdate

SpecAnimator == InitAnimator /\ [][NextAnimator]_vars

\* ------------------------------------------------ CollisionSystem::update
\* CollisionSystem::checkGrounded(object, distance); hit and normal are what
\* the raycast returns
CheckGrounded(comps, obj, hit, normal) ==
    LET col == GetComponent(comps, obj, "Collider")
        rb == GetComponent(comps, obj, "Rigidbody")
    IN IF obj = NoObject \/ col = 0 \/ ~hit \/ rb = 0 THEN comps
       ELSE [comps EXCEPT ![rb].isGrounded = TRUE, ![rb].groundNormal = normal]

\* the normal of a slope, (0.6, 0, 0.8), as <<x, z>> in tenths
SlopeNormal == <<6, 8>>

\* normals the step reports: straight down, a slope short of the 0.6
\* threshold, straight up
SyncNormals == { <<0, -NormalScale>>, <<8, -6>>, <<0, NormalScale>> }

\* the contact events a step can report for the bodies of the world
ContactEvents ==
    { e \in { <<kind, b1, b2, n>> : kind \in {"added", "persisted"},
                                   b1 \in 1..Len(bodies), b2 \in 1..Len(bodies),
                                   n \in SyncNormals } : e[2] # e[3] }

\* a Collider the scene's onLoad made a trigger
Trigger(obj) == [Comp("Collider", obj, TRUE, FALSE) EXCEPT !.isTrigger = TRUE]

\* loaded scenes, with the authored position of each object in whole units
\* and the objects the scene's onLoad left active: a dynamic body over
\* static ground, a kinematic body beside a static one, a dynamic object
\* with two Colliders, a disabled Rigidbody beside a dynamic body, a
\* dynamic trigger over static ground, a deactivated dynamic object beside
\* an active one
SyncScenes ==
    { [comps |-> <<OffCentre(1), Comp("Rigidbody", 1, TRUE, FALSE),
                   Comp("Collider", 2, TRUE, FALSE)>>,
       pos |-> [o \in Objs |-> IF o = 1 THEN 1 ELSE 0],
       act |-> [o \in Objs |-> TRUE]],
      [comps |-> <<Comp("Rigidbody", 1, TRUE, TRUE), OffCentre(1),
                   Comp("Collider", 2, TRUE, FALSE)>>,
       pos |-> [o \in Objs |-> IF o = 1 THEN 1 ELSE 0],
       act |-> [o \in Objs |-> TRUE]],
      [comps |-> <<Comp("Collider", 1, TRUE, FALSE), Comp("Rigidbody", 1, TRUE, FALSE),
                   OffCentre(1)>>,
       pos |-> [o \in Objs |-> 0],
       act |-> [o \in Objs |-> TRUE]],
      [comps |-> <<Comp("Rigidbody", 1, FALSE, FALSE), Comp("Collider", 1, TRUE, FALSE),
                   Comp("Collider", 2, TRUE, FALSE), Comp("Rigidbody", 2, TRUE, FALSE)>>,
       pos |-> [o \in Objs |-> IF o = 1 THEN 0 ELSE 1],
       act |-> [o \in Objs |-> TRUE]],
      [comps |-> <<Trigger(1), Comp("Rigidbody", 1, TRUE, FALSE),
                   Comp("Collider", 2, TRUE, FALSE)>>,
       pos |-> [o \in Objs |-> IF o = 1 THEN 1 ELSE 0],
       act |-> [o \in Objs |-> TRUE]],
      [comps |-> <<Comp("Collider", 1, TRUE, FALSE), Comp("Rigidbody", 1, TRUE, FALSE),
                   Comp("Collider", 2, TRUE, FALSE), Comp("Rigidbody", 2, TRUE, FALSE)>>,
       pos |-> [o \in Objs |-> IF o = 1 THEN 0 ELSE 1],
       act |-> [o \in Objs |-> o # 1]] }

\* the GameObjects of the scene that carry a component
Owners == {components[i].owner : i \in 1..Len(components)}

\* what a physics step is followed doing: it moves the dynamic bodies and
\* reports no contact, or it reports one contact between bodies at rest
StepOutcomes ==
    { [mv |-> m, events |-> <<>>] : m \in [DynamicBodies(bodies) -> 0..MaxStepMove] }
    \cup { [mv |-> [b \in DynamicBodies(bodies) |-> 0], events |-> <<e>>] :
               e \in ContactEvents }

\* collisionSystem->update(scene, dt), with the contacts its physics step
\* reports
CallUpdate ==
    /\ pc = "sync"
    /\ stepsTotal < MaxUpdates
    /\ \E out \in StepOutcomes :
          LET st == Update(position, components, bodies, bodyToGameObject,
                           colliders, active, out.mv, out.events)
          IN /\ bodies' = st.bodies
             /\ position' = st.pos
             /\ components' = st.comps
             /\ reported' = out.events
    /\ stepsTotal' = stepsTotal + 1
    /\ UNCHANGED <<pc, frames, measured, deltaTime, accumulator, alpha, gameDt,
                   compDt, fixedDt, frameLog, swapAcquired, dtTotal>>
    /\ UNCHANGED <<hasScene, hasCamera, active, nObjects, gameObjects>>
    /\ UNCHANGED <<initialized, atInit, colliders, bodyToGameObject,
                   debugDrawEnabled, debugVars>>
    /\ UNCHANGED <<queryVars, contact, callbacks, lifeVars, meshVars, blitVars, animVars>>

\* game code calls collisionSystem->checkGrounded(object); a ray that hits
\* finds a slope whose normal is (0.6, 0, 0.8)
CallCheckGrounded ==
    /\ pc = "sync"
    /\ stepsTotal < MaxUpdates
    /\ \E obj \in Owners, hit \in BOOLEAN :
          components' = CheckGrounded(components, obj, hit, SlopeNormal)
    /\ UNCHANGED <<engineVars, hasScene, hasCamera, position, active, nObjects, gameObjects>>
    /\ UNCHANGED <<physVars, queryVars, auxVars>>

\* game code writes GameObject::position: the origin or one unit off it
MoveObject ==
    /\ pc = "sync"
    /\ stepsTotal < MaxUpdates
    /\ \E obj \in Owners, p \in {0, PosScale} :
          /\ position[obj] # p
          /\ position' = [position EXCEPT ![obj] = p]
    /\ UNCHANGED <<engineVars, hasScene, hasCamera, active, nObjects, gameObjects, components>>
    /\ UNCHANGED <<physVars, queryVars, auxVars>>

\* a scene has been loaded and its CollisionSystem initialized
InitSync ==
    /\ InitEngine
    /\ InitAux
    /\ pc = "sync"
    /\ hasScene = TRUE /\ hasCamera = FALSE
    /\ nObjects = NumObjects
    /\ gameObjects = 1..NumObjects
    /\ \E sc \in SyncScenes :
          LET pos0 == [o \in Objs |-> sc.pos[o] * PosScale]
              st == Initialize(sc.comps, pos0)
          IN /\ position = pos0
             /\ active = sc.act
             /\ atInit = sc.comps
             /\ components = st.components
             /\ colliders = st.colliders
             /\ bodyToGameObject = st.bodyToGameObject
             /\ bodies = st.bodies
    /\ initialized = TRUE
    /\ debugDrawEnabled = FALSE
    /\ IdleDebug

NextSync ==
    \/ CallUpdate
    \/ CallCheckGrounded
    \/ MoveObject

SpecSync == InitSync /\ [][NextSync]_vars

\* ------------------------------------------------ debug drawing on its own
\* a Collider whose onLoad set shapeType Mesh and a meshPath that loads n
\* triangles (none: createBody falls back to a box)
MeshCollider(obj, n) == [Comp("Collider", obj, TRUE, FALSE) EXCEPT !.meshTriangles = n]

\* the components an onLoad gives one object: a static collider with a box or
\* a mesh, a dynamic body with a box or a mesh, a kinematic body
DebugObjects(obj) ==
    { <<MeshCollider(obj, n)>> : n \in 0..MaxTriangles }
    \cup { <<MeshCollider(obj, n), Comp("Rigidbody", obj, TRUE, FALSE)>> : n \in 0..1 }
    \cup { <<Comp("Collider", obj, TRUE, FALSE), Comp("Rigidbody", obj, TRUE, TRUE)>> }

\* the loaded scenes debug drawing is followed on
DebugScenes == { a \o b : a \in DebugObjects(1), b \in DebugObjects(2) }

\* game code calls collisionSystem->enableDebugDraw(enabled)
EnableDebugDraw ==
    /\ pc = "debug"
    /\ stepsTotal < MaxDraws
    /\ \E enabled \in BOOLEAN :
          /\ debugDrawEnabled # enabled
          /\ debugDrawEnabled' = enabled
    /\ UNCHANGED <<engineVars, sceneVars, queryVars, auxVars>>
    /\ UNCHANGED <<initialized, atInit, colliders, bodyToGameObject, bodies, debugVars>>

\* collisionSystem->drawDebugShapes() is called, by renderDebugPass or by
\* game code; stepsTotal counts the calls
CallDrawDebugShapes ==
    /\ pc = "debug"
    /\ stepsTotal < MaxDraws
    /\ LET dbg == DrawDebugShapes(DebugState, debugDrawEnabled, initialized,
                                  bodies, bodyToGameObject)
       IN /\ m_staticLinesCached' = dbg.cached
          /\ m_cachedStaticLines' = dbg.cachedLines
          /\ lines' = dbg.lines
    /\ stepsTotal' = stepsTotal + 1
    /\ UNCHANGED <<pc, frames, measured, deltaTime, accumulator, alpha, gameDt,
                   compDt, fixedDt, frameLog, swapAcquired, dtTotal>>
    /\ UNCHANGED <<sceneVars, queryVars, auxVars>>
    /\ UNCHANGED <<initialized, atInit, colliders, bodyToGameObject, bodies,
                   debugDrawEnabled>>

\* a scene has been loaded and its CollisionSystem initialized
InitDebug ==
    /\ InitEngine
    /\ InitAux
    /\ pc = "debug"
    /\ hasScene = TRUE /\ hasCamera = FALSE
    /\ nObjects = NumObjects
    /\ gameObjects = 1..NumObjects
    /\ active = [o \in Objs |-> TRUE]
    /\ position = [o \in Objs |-> 0]
    /\ \E comps \in DebugScenes :
          LET st == Initialize(comps, position)
          IN /\ atInit = comps
             /\ components = st.components
             /\ colliders = st.colliders
             /\ bodyToGameObject = st.bodyToGameObject
             /\ bodies = st.bodies
    /\ initialized = TRUE
    /\ debugDrawEnabled = FALSE
    /\ IdleDebug

NextDebug ==
    \/ EnableDebugDraw
    \/ CallDrawDebugShapes

SpecDebug == InitDebug /\ [][NextDebug]_vars

\* ------------------------------------------------------------- properties
InLog(stage) == \E k \in DOMAIN frameLog : frameLog[k] = stage

\* C1: when the measured frame delta is <= 0 the deltaTime of the frame is
\* exactly the fallback 1/60 s; the deltaTime of every frame is strictly
\* positive, and it is the value passed to Game::onUpdate, to the
\* components' onUpdate and added to the accumulator.
C1_EffectiveDelta ==
    /\ [](frames > 0 =>
            /\ (measured <= 0 => deltaTime = TicksPerStep)
            /\ deltaTime > 0
            /\ (InLog("gameUpdate") => gameDt = deltaTime)
            /\ (InLog("componentUpdate") => compDt = deltaTime))
    /\ [][pc = "sceneUpdate" => accumulator' = accumulator + deltaTime]_vars

C1_Witness ==
    /\ pc = "loopTest" /\ measured <= 0
    /\ InLog("gameUpdate") /\ InLog("componentUpdate")
    /\ accumulator >= deltaTime

\* C2: starting from accumulator = 0, when the effective deltas of the
\* frames run so far sum to exactly k * fixedTimeStep, the fixed-step loop
\* has run exactly k times in total and the accumulator is 0 after the
\* last frame.
C2_ExactSteps ==
    (pc \in {"render", "check", "ended"} /\ dtTotal % fixedTimeStep = 0) =>
        /\ stepsTotal * fixedTimeStep = dtTotal
        /\ accumulator = 0

C2_Witness ==
    /\ pc = "render" /\ frames >= 2
    /\ dtTotal % fixedTimeStep = 0 /\ deltaTime % fixedTimeStep # 0
    /\ stepsTotal >= 2

\* C3: once the fixed-step loop of a frame has finished,
\* 0 <= accumulator < fixedTimeStep, and the alpha of the frame's
\* interpolation, accumulator / fixedTimeStep, is in [0, 1).
C3_AlphaRange ==
    /\ (pc \in {"render", "check", "ended"} =>
            0 <= accumulator /\ accumulator < fixedTimeStep)
    /\ (pc = "render" =>
            alpha = accumulator /\ 0 <= alpha /\ alpha < fixedTimeStep)

C3_Witness ==
    pc = "render" /\ alpha > 0 /\ InLog("storeCurrent")

\* C4: after the interpolation stage, the owner of every enabled,
\* non-kinematic Rigidbody is at previousPosition + alpha * (currentPosition
\* - previousPosition); with alpha = 0 that is previousPosition exactly.
C4_Interpolation ==
    pc = "render" =>
        \A i \in 1..Len(components) :
            IsInterpolated(components[i]) =>
                LET c == components[i]
                IN /\ position[c.owner] * fixedTimeStep =
                        c.previousPosition * fixedTimeStep
                        + alpha * (c.currentPosition - c.previousPosition)
                   /\ (alpha = 0 => position[c.owner] = c.previousPosition)

C4_Witness ==
    /\ pc = "render" /\ alpha > 0
    /\ \E i \in 1..Len(components) :
          /\ IsInterpolated(components[i])
          /\ components[i].currentPosition # components[i].previousPosition
          /\ position[components[i].owner] # components[i].previousPosition

\* the Collider a Rigidbody's owner is simulated through, 0 if none
ColliderOf(i) == GetComponent(components, components[i].owner, "Collider")

\* C5: previousPosition captured at the start of a fixed step is the
\* physics position the preceding fixed step produced for the body (never a
\* position written by the interpolation stage), for every enabled,
\* non-kinematic Rigidbody whose collider has a body that is kept in sync.
C5_PreviousIsPhysics ==
    pc = "fixedUpdate" =>
        \A i \in 1..Len(components) :
            (/\ IsInterpolated(components[i])
             /\ ColliderOf(i) # 0
             /\ components[ColliderOf(i)].bodyID # InvalidBodyID
             /\ IsSynced(components, active, ColliderOf(i))) =>
                components[i].previousPosition =
                    bodies[components[ColliderOf(i)].bodyID].position
                    - components[ColliderOf(i)].center

\* the stage of the frame an entry of frameLog belongs to
StageRank(entry) ==
    CASE entry = "poll" -> 1
      [] entry = "gameUpdate" -> 2
      [] entry = "componentUpdate" -> 3
      [] entry \in {"storePrevious", "fixedUpdate", "collisionUpdate", "storeCurrent"} -> 4
      [] entry = "interpolate" -> 5
      [] entry \in {"silhouette", "main", "outline", "debug", "ui", "blit", "submit"} -> 6
      [] entry = "present" -> 7

\* C6: the stages of a frame run in the order input poll, Game::onUpdate,
\* component onUpdate, fixed-step loop, interpolation, render-pass
\* submission, present; no stage runs after a later one, and events are
\* polled once, before the game update.
C6_StageOrder ==
    \A j \in DOMAIN frameLog : \A k \in DOMAIN frameLog :
        j < k =>
            /\ StageRank(frameLog[j]) <= StageRank(frameLog[k])
            /\ (StageRank(frameLog[j]) = StageRank(frameLog[k])
                    => StageRank(frameLog[j]) \in {4, 6})

\* the passes, submission and presentation of the frame's renderScene call
PassLog ==
    SelectSeq(frameLog, LAMBDA e : e \in {"silhouette", "main", "outline", "debug",
                                          "ui", "blit", "submit", "present"})

PassRank(pass) ==
    CASE pass = "silhouette" -> 1
      [] pass = "main" -> 2
      [] pass = "outline" -> 3
      [] pass = "debug" -> 4
      [] pass = "ui" -> 5
      [] pass = "blit" -> 6
      [] pass = "submit" -> 7
      [] pass = "present" -> 8

Registered == {i \in 1..Len(components) :
                  components[i].kind = "Collider" /\ components[i].bodyID # InvalidBodyID}

\* each body belongs to exactly one registered collider, and resolves to
\* that collider's owner
OneBodyEach ==
    /\ \A i \in Registered : components[i].bodyID \in 1..Len(bodies)
    /\ \A b \in 1..Len(bodies) :
          Cardinality({i \in Registered : components[i].bodyID = b}) = 1
    /\ \A i \in Registered :
          GetGameObjectFromBodyID(bodyToGameObject, components[i].bodyID)
              = components[i].owner

Bits(n) == {k \in 0..(LayerBits - 1) : (n \div Pow(2, k)) % 2 = 1}

\* (L1 & M2) != 0 AND (L2 & M1) != 0 for the colliders a and b
LayersMeet(a, b) ==
    /\ Bits(components[a].collisionLayer) \cap Bits(components[b].collisionMask) # {}
    /\ Bits(components[b].collisionLayer) \cap Bits(components[a].collisionMask) # {}

\* C9: shouldCollideWith is true iff (L1 & M2) != 0 and (L2 & M1) != 0; it
\* is symmetric; a collider of layer None collides with nothing; and
\* OnContactValidate rejects a body pair exactly when both bodies resolve
\* to colliders for which the relation is false.
C9_LayerFilter ==
    /\ layerQuery # <<>> =>
          (layerQuery[3] <=> (layerQuery[2] # 0 /\ LayersMeet(layerQuery[1], layerQuery[2])))
    /\ \A a \in 1..Len(components) : \A b \in 1..Len(components) :
          /\ ShouldCollideWith(components, a, b) = ShouldCollideWith(components, b, a)
          /\ (components[a].collisionLayer = None =>
                 ~ShouldCollideWith(components, a, b) /\ ~ShouldCollideWith(components, b, a))
    /\ validateResult # <<>> =>
          LET o1 == GetGameObjectFromBodyID(bodyToGameObject, validateResult[1])
              o2 == GetGameObjectFromBodyID(bodyToGameObject, validateResult[2])
              c1 == GetComponent(components, o1, "Collider")
              c2 == GetComponent(components, o2, "Collider")
          IN (validateResult[3] = "Reject") <=>
                 (c1 # 0 /\ c2 # 0 /\ ~LayersMeet(c1, c2))

C9_Witness ==
    /\ pc = "layers"
    /\ validateResult # <<>> /\ validateResult[3] = "Reject"
    /\ layerQuery # <<>> /\ layerQuery[2] # 0 /\ ~layerQuery[3]
    /\ \A i \in 1..Len(components) : components[i].collisionLayer # None
    /\ \E a \in 1..Len(components), b \in 1..Len(components) :
          BitAnd(components[a].collisionLayer, components[b].collisionMask) # 0

\* C10: the motion type of a body created by createBody depends on the
\* sibling Rigidbody only: none gives a static body, one with isKinematic a
\* kinematic body, any other a dynamic body; static bodies are on the
\* non-moving object layer, all others on the moving layer.
C10_MotionType ==
    initialized =>
        \A i \in Registered :
            LET rb == GetComponent(atInit, atInit[i].owner, "Rigidbody")
                body == bodies[components[i].bodyID]
            IN /\ (rb = 0 => body.motionType = "Static")
               /\ (rb # 0 /\ atInit[rb].isKinematic => body.motionType = "Kinematic")
               /\ (rb # 0 /\ ~atInit[rb].isKinematic => body.motionType = "Dynamic")
               /\ (body.objectLayer = 0 <=> body.motionType = "Static")
               /\ (body.objectLayer = 1 <=> body.motionType # "Static")

C10_Witness ==
    /\ initialized
    /\ \E i \in Registered : bodies[components[i].bodyID].motionType = "Static"
    /\ \E i \in Registered :
          LET rb == GetComponent(atInit, atInit[i].owner, "Rigidbody")
          IN rb # 0 /\ ~atInit[rb].enabled
             /\ bodies[components[i].bodyID].motionType # "Static"

\* the two colliders a contact event resolves to, and their GameObjects
ContactObj(k) == GetGameObjectFromBodyID(bodyToGameObject, contact[k + 1])
ContactCol(k) == GetComponent(components, ContactObj(k), "Collider")
ContactIsTrigger == components[ContactCol(1)].isTrigger \/ components[ContactCol(2)].isTrigger

\* the named callback was invoked on both colliders, each with the other's
\* GameObject, and nothing else was invoked
InvokedOnBoth(name) ==
    /\ Len(callbacks) = 2
    /\ { callbacks[k] : k \in 1..2 } =
          { <<name, ContactCol(1), ContactObj(2)>>, <<name, ContactCol(2), ContactObj(1)>> }

\* C11 as stated: for contact-added and contact-persisted events alike, if
\* either collider is a trigger onTriggerEnter is invoked on both colliders
\* and no collision callback is; otherwise onCollisionEnter (added) or
\* onCollisionStay (persisted) is invoked on both.
C11_TriggerOnBoth ==
    contact # <<>> =>
        IF ContactIsTrigger THEN InvokedOnBoth("onTriggerEnter")
        ELSE IF contact[1] = "added" THEN InvokedOnBoth("onCollisionEnter")
        ELSE InvokedOnBoth("onCollisionStay")

\* C11, amended: on a contact-added event, if either collider is a trigger
\* onTriggerEnter is invoked on both colliders (each with the other's
\* GameObject) and no collision callback is, otherwise onCollisionEnter is
\* invoked on both; on a contact-persisted event, if either collider is a
\* trigger no callback is invoked at all, otherwise onCollisionStay is
\* invoked on both.
C11_TriggerOnAddOnly ==
    contact # <<>> =>
        IF contact[1] = "added"
        THEN IF ContactIsTrigger THEN InvokedOnBoth("onTriggerEnter")
             ELSE InvokedOnBoth("onCollisionEnter")
        ELSE IF ContactIsTrigger THEN callbacks = <<>>
             ELSE InvokedOnBoth("onCollisionStay")

C11_Witness ==
    /\ contact # <<>>
    /\ contact[1] = "persisted"
    /\ ContactIsTrigger
    /\ ~components[ContactCol(1)].isTrigger
    /\ callbacks = <<>>

\* the Rigidbody a contact event resolves to for body k, 0 for none
ContactRb(k) == GetComponent(components, ContactObj(k), "Rigidbody")

\* C12: a non-trigger contact (added or persisted) with normal n sets
\* isGrounded and groundNormal = -n on body 1's Rigidbody iff n.z < -0.6,
\* and isGrounded and groundNormal = n on body 2's Rigidbody iff n.z > 0.6;
\* a contact with |n.z| <= 0.6 and a trigger contact change no Rigidbody.
C12_GroundedFromNormal ==
    [][(contact' # <<>> /\ contact' # contact) =>
          LET n == contact'[4]
              obj1 == GetGameObjectFromBodyID(bodyToGameObject, contact'[2])
              obj2 == GetGameObjectFromBodyID(bodyToGameObject, contact'[3])
              rb1 == GetComponent(components, obj1, "Rigidbody")
              rb2 == GetComponent(components, obj2, "Rigidbody")
              solid == /\ ~components[GetComponent(components, obj1, "Collider")].isTrigger
                       /\ ~components[GetComponent(components, obj2, "Collider")].isTrigger
              down == solid /\ 10 * n[2] < -6 * NormalScale
              up == solid /\ 10 * n[2] > 6 * NormalScale
          IN /\ Len(components') = Len(components)
             /\ \A i \in 1..Len(components) :
                   IF down /\ i = rb1
                   THEN /\ components'[i].isGrounded
                        /\ components'[i].groundNormal = <<0 - n[1], 0 - n[2]>>
                        /\ components'[i] = [components[i] EXCEPT
                                                !.isGrounded = TRUE,
                                                !.groundNormal = components'[i].groundNormal]
                   ELSE IF up /\ i = rb2
                   THEN /\ components'[i].isGrounded
                        /\ components'[i].groundNormal = n
                        /\ components'[i] = [components[i] EXCEPT
                                                !.isGrounded = TRUE,
                                                !.groundNormal = n]
                   ELSE components'[i] = components[i]
    ]_vars

C12_Witness ==
    /\ contact # <<>>
    /\ contact[4][2] < -GroundThreshold
    /\ ~ContactIsTrigger
    /\ ContactRb(1) # 0 /\ ContactRb(2) # 0
    /\ components[ContactRb(1)].isGrounded
    /\ components[ContactRb(1)].groundNormal = Neg(contact[4])
    /\ ~components[ContactRb(2)].isGrounded

\* the frame has run to its end
FrameDone == pc = "check" /\ frames > 0

\* the frame's renderScene call was made
Rendered == InLog("submit")

\* C13: in a frame whose swap-chain texture view cannot be acquired no blit
\* pass is recorded and the frame is not presented (no present call is
\* made), and the loop goes on to the next frame.
C13_NoPresentWithoutSurface ==
    (FrameDone /\ Rendered /\ ~swapAcquired) =>
        /\ ~InLog("blit")
        /\ ~InLog("present")

\* the number of entries of the frame's log that are the given stage
CountInLog(stage) == Cardinality({k \in DOMAIN frameLog : frameLog[k] = stage})

\* the first entry of the frame's log that is the given stage, 0 for none
IndexInLog(stage) ==
    IF InLog(stage)
    THEN CHOOSE k \in DOMAIN frameLog :
             frameLog[k] = stage /\ \A j \in 1..(k - 1) : frameLog[j] # stage
    ELSE 0

\* C14: Game::onRenderUI runs exactly once in every frame in which the
\* render pipeline runs, after outline composition (and the debug pass when
\* there is one) and before the blit pass and the submission; it does not
\* run in a frame whose render is skipped.
C14_UiOncePerFrame ==
    /\ CountInLog("ui") <= 1
    /\ FrameDone =>
          IF hasScene /\ hasCamera
          THEN /\ CountInLog("ui") = 1
               /\ IndexInLog("outline") > 0
               /\ IndexInLog("outline") < IndexInLog("ui")
               /\ IndexInLog("debug") < IndexInLog("ui")
               /\ (InLog("blit") => IndexInLog("ui") < IndexInLog("blit"))
               /\ IndexInLog("ui") < IndexInLog("submit")
          ELSE CountInLog("ui") = 0

C14_Witness ==
    /\ FrameDone /\ frames >= 2
    /\ CountInLog("ui") = 1
    /\ InLog("debug") /\ InLog("blit")

\* C19: in a frame in which the game has no current scene or no main
\* camera renderScene is not invoked; the frame still runs the game update
\* and the fixed-step loop to its end, and the loop is back at its test,
\* ready for the next frame.
C19_SkipRender ==
    (FrameDone /\ ~(hasScene /\ hasCamera)) =>
        /\ \A k \in DOMAIN frameLog :
              frameLog[k] \notin {"silhouette", "main", "outline", "debug", "ui",
                                  "blit", "submit", "present"}
        /\ CountInLog("poll") = 1
        /\ InLog("gameUpdate") /\ gameDt = deltaTime
        /\ InLog("interpolate")
        /\ 0 <= accumulator /\ accumulator < fixedTimeStep
        /\ stepsTotal * fixedTimeStep + accumulator = dtTotal
        /\ (hasScene => CountInLog("fixedUpdate") = CountInLog("storeCurrent"))

C19_Witness ==
    /\ FrameDone /\ frames >= 2
    /\ hasScene /\ ~hasCamera
    /\ InLog("storeCurrent") /\ InLog("fixedUpdate")
    /\ ~InLog("present")

\* the scenes the last loadScene or shutdown destroyed
DestroyedInLog == { lifeLog[k][2] : k \in {j \in DOMAIN lifeLog : lifeLog[j][1] = "onUnload"} }

\* C15: when a Scene is destroyed, onDestroy has been invoked on every
\* component of the scene before any component or GameObject of the scene
\* is freed, and each component receives onDestroy exactly once.
C15_DestroyBeforeFree ==
    \A s \in DestroyedInLog :
        /\ \A c \in 1..scenes[s].nComponents :
              Cardinality({k \in DOMAIN lifeLog : lifeLog[k] = <<"onDestroy", s, c>>}) = 1
        /\ \A p \in DOMAIN lifeLog : \A q \in DOMAIN lifeLog :
              (/\ lifeLog[p][1] \in {"deleteComponent", "deleteObject"}
               /\ lifeLog[p][2] = s
               /\ lifeLog[q][1] = "onDestroy"
               /\ lifeLog[q][2] = s) => q < p

\* the CollisionSystems that exist
LiveSystems == {c \in DOMAIN systems : systems[c].alive}

\* C16: across any sequence of loadScene calls followed by shutdown, every
\* loaded scene has exactly one CollisionSystem of its own, created and
\* initialized after the scene's onLoad, and that CollisionSystem is
\* destroyed when the scene is unloaded, by loadScene or at shutdown: no
\* CollisionSystem outlives its scene and none is shared between scenes.
C16_SystemPerScene ==
    /\ \A c \in LiveSystems :
          /\ scenes[systems[c].scene].alive
          /\ scenes[systems[c].scene].collisionSystem = c
    /\ \A s \in DOMAIN scenes :
          scenes[s].alive =>
              /\ scenes[s].collisionSystem \in LiveSystems
              /\ systems[scenes[s].collisionSystem].scene = s
    /\ \A s \in DOMAIN scenes : \A t \in DOMAIN scenes :
          (s # t /\ scenes[s].alive /\ scenes[t].alive) =>
              scenes[s].collisionSystem # scenes[t].collisionSystem
    /\ \A k \in DOMAIN lifeLog :
          lifeLog[k][1] = "newSystem" =>
              /\ k > 1 /\ lifeLog[k - 1] = <<"onLoad", lifeLog[k][2], 0>>
              /\ k < Len(lifeLog)
              /\ lifeLog[k + 1] = <<"initialize", lifeLog[k][2], lifeLog[k][3]>>

\* C17: after a successful loadMesh(name, file), an immediately following
\* getMeshByName(name) returns a mesh whose vertexCount is the number of
\* vertices that call loaded, also when the name had been loaded before
\* with another geometry; a failed loadMesh returns false and registers no
\* mesh.
C17_LoadThenLookup ==
    lastLoad # <<>> =>
        /\ (~lastLoad.result => m_meshes = lastLoad.before)
        /\ (lastLoad.result /\ lookup # <<>> /\ lookup[1] = lastLoad.name) =>
              /\ lookup[2] # 0
              /\ m_meshes[lookup[2]].vertexCount = lastLoad.geometry

\* the blit pass sampled the axis result r at output pixel i under zoom
\* z = zn/zd and centre c = cn/cd as C18 says: the coordinate is
\* clamp(c - (1/z)/2 + u/z, 0, 1) for u the pixel-centre UV, it lies in the
\* window [c - 1/(2z), c + 1/(2z)] clamped to [0, 1], and the texel read is
\* floor(coordinate * TexSize)
SampledAsClaimed(r, i, z, c) ==
    LET n == r.zoomedUV[1]
        d == r.zoomedUV[2]
        \* everything over the common denominator 2 * OutSize * zn * cd
        den == 2 * OutSize * z[1] * c[2]
        raw == 2 * OutSize * z[1] * c[1] - OutSize * z[2] * c[2]
               + (2 * i + 1) * z[2] * c[2]
        lo == 2 * OutSize * z[1] * c[1] - OutSize * z[2] * c[2]
        hi == 2 * OutSize * z[1] * c[1] + OutSize * z[2] * c[2]
        Clamp(v) == IF v < 0 THEN 0 ELSE IF v > den THEN den ELSE v
    IN /\ d > 0
       /\ n * den = Clamp(raw) * d
       /\ Clamp(lo) * d <= n * den /\ n * den <= Clamp(hi) * d
       /\ r.pixelCoord * d <= n * TexSize
       /\ n * TexSize < (r.pixelCoord + 1) * d

\* C18: in the blit pass an output UV u samples the source at
\* clamp(c - (1/z)/2 + u/z, 0, 1) per axis, inside the window
\* [c - 1/(2z), c + 1/(2z)] clamped to [0, 1]; with z = 2 and centre
\* (0.5, 0.5) every sampled coordinate is in [0.25, 0.75] on both axes (the
\* central quarter of the frame by area); the texel read is
\* floor(coordinate * textureSize), with no filtering.
C18_ZoomWindow ==
    sample # <<>> =>
        LET z == m_zoomUniforms.zoom
            cx == m_zoomUniforms.centerX
            cy == m_zoomUniforms.centerY
        IN /\ SampledAsClaimed(sample.x, sample.fragment[1], z, cx)
           /\ SampledAsClaimed(sample.y, sample.fragment[2], z, cy)
           /\ (z[1] = 2 * z[2] /\ 2 * cx[1] = cx[2] /\ 2 * cy[1] = cy[2]) =>
                 \A r \in {sample.x, sample.y} :
                     /\ r.zoomedUV[2] <= 4 * r.zoomedUV[1]
                     /\ 4 * r.zoomedUV[1] <= 3 * r.zoomedUV[2]
                     /\ 4 * r.pixelCoord >= TexSize - 3
                     /\ 4 * r.pixelCoord < 3 * TexSize

C18_Witness ==
    /\ sample # <<>>
    /\ m_zoomUniforms = [zoom |-> <<2, 1>>, centerX |-> <<2, 4>>, centerY |-> <<2, 4>>]
    /\ sample.fragment = <<0, OutSize - 1>>
    /\ 4 * sample.x.zoomedUV[1] > sample.x.zoomedUV[2]
    /\ 4 * sample.y.zoomedUV[1] < 3 * sample.y.zoomedUV[2]

\* C20: Animator::play with a clip name that was never added leaves the
\* whole Animator unchanged (current clip and clip name, currentTime,
\* currentFrame, playing, paused, the clips) and does not change the
\* owner's MeshComponent.meshName, so later updates go on from that state.
C20_PlayMissingClip ==
    [][(animCall'[1] = "play" /\ animCall'[2] \notin DOMAIN animator.clips) =>
          /\ animator'.currentClip = animator.currentClip
          /\ animator'.currentClipName = animator.currentClipName
          /\ animator'.currentTime = animator.currentTime
          /\ animator'.currentFrame = animator.currentFrame
          /\ animator'.playing = animator.playing
          /\ animator'.paused = animator.paused
          /\ animator'.playbackSpeed = animator.playbackSpeed
          /\ animator'.clips = animator.clips
          /\ animator'.meshName = animator.meshName
    ]_vars

C20_Witness ==
    /\ animCall = <<"play", "jump">>
    /\ animator.playing /\ ~animator.paused
    /\ animator.currentClip = "walk"
    /\ animator.currentFrame = 1 /\ animator.currentTime > 0
    /\ animator.meshName = <<"walk", 2>>

\* the entries of frameLog made by the fixed-step loop
StepLog ==
    SelectSeq(frameLog, LAMBDA e : e \in {"storePrevious", "fixedUpdate",
                                          "collisionUpdate", "storeCurrent"})

\* what one iteration of the fixed-step loop does on a loaded scene
StepBlock == <<"storePrevious", "fixedUpdate", "collisionUpdate", "storeCurrent">>

\* C21: each iteration of the fixed-step loop snapshots previousPosition =
\* owner.position for every enabled non-kinematic Rigidbody, then calls
\* onFixedUpdate, then CollisionSystem::update, then snapshots
\* currentPosition = owner.position, then subtracts fixedTimeStep from the
\* accumulator, in this order; the step size passed is fixedTimeStep, never
\* the frame's deltaTime.
C21_FixedStepOrder ==
    /\ []((hasScene /\ initialized) =>
            /\ \A k \in DOMAIN StepLog : StepLog[k] = StepBlock[((k - 1) % 4) + 1]
            /\ (pc = "fixedUpdate" =>
                    \A i \in 1..Len(components) :
                        IsInterpolated(components[i]) =>
                            components[i].previousPosition
                                = position[components[i].owner])
            /\ (InLog("fixedUpdate") => fixedDt = fixedTimeStep)
            /\ (pc = "loopTest" /\ frameLog # <<>>
                    /\ frameLog[Len(frameLog)] = "storeCurrent" =>
                    \A i \in 1..Len(components) :
                        IsInterpolated(components[i]) =>
                            components[i].currentPosition
                                = position[components[i].owner]))
    /\ [][pc = "storeCurrent" =>
            /\ accumulator' = accumulator - fixedTimeStep
            /\ pc' = "loopTest"]_vars

C21_Witness ==
    /\ pc = "loopTest" /\ hasScene /\ initialized
    /\ Len(StepLog) = 8 /\ frameLog[Len(frameLog)] = "storeCurrent"
    /\ deltaTime # fixedTimeStep
    /\ \E i \in 1..Len(components) :
          /\ IsInterpolated(components[i])
          /\ components[i].currentPosition # components[i].previousPosition

\* the registered colliders CollisionSystem::update synchronises: enabled,
\* with an active owner
SyncedColliders ==
    {colliders[k] : k \in {j \in 1..Len(colliders) :
                              IsSynced(components, active, colliders[j])}}

\* the first Rigidbody of a collider's owner, 0 if none
RigidbodyOf(col) == GetComponent(components, components[col].owner, "Rigidbody")

\* C22: in each CollisionSystem::update, for every registered collider that
\* is enabled and whose owner is active: with a kinematic Rigidbody the body
\* takes owner.position + center and owner.position stays; with a
\* non-kinematic Rigidbody owner.position = body position - center and
\* rb.velocity = body velocity hold after the step, read from the stepped
\* body; with no Rigidbody nothing is pushed or pulled.
C22_PushPull ==
    [][(pc = "sync" /\ stepsTotal' = stepsTotal + 1) =>
        \A col \in SyncedColliders :
            LET c == components[col]
                rb == RigidbodyOf(col)
            IN IF rb = 0
               THEN /\ bodies'[c.bodyID] = bodies[c.bodyID]
                    /\ position'[c.owner] = position[c.owner]
               ELSE IF components[rb].isKinematic
               THEN /\ bodies'[c.bodyID].position = position[c.owner] + c.center
                    /\ position'[c.owner] = position[c.owner]
               ELSE /\ position'[c.owner] = bodies'[c.bodyID].position - c.center
                    /\ components'[rb].velocity = bodies'[c.bodyID].velocity]_vars

\* iterations of the fixed-step loop the running frame has made
FrameSteps == CountInLog("storeCurrent")

\* the accumulator as the running frame found it, before accumulator +=
\* deltaTime
AccumulatorBefore ==
    dtTotal - deltaTime - (stepsTotal - FrameSteps) * fixedTimeStep

GetAlpha == accumulator

\* game code is about to be called back: Game::onUpdate, the components'
\* onUpdate, the components' onFixedUpdate and the collision callbacks of
\* the step, Game::onRenderUI
AtCallback ==
    \/ pc = "gameUpdate"
    \/ pc = "sceneUpdate" /\ hasScene
    \/ pc = "fixedUpdate" /\ hasScene
    \/ pc = "render" /\ RenderDue(hasScene, hasCamera)

\* C24: Engine::getAlpha() is in [0, 1) at every point at which game code
\* can call it during a frame: Game::onUpdate, component onUpdate, component
\* onFixedUpdate and collision callbacks inside the fixed-step loop, and
\* Game::onRenderUI.
C24_GetAlphaRange ==
    AtCallback => (0 <= GetAlpha /\ GetAlpha < fixedTimeStep)


\* the registered bodies that are not static
NonStaticBodies ==
    {b \in DOMAIN bodyToGameObject : bodies[b].motionType # "Static"}

\* the registered static bodies that have a mesh shape
StaticMeshBodies ==
    {b \in DOMAIN bodyToGameObject :
        bodies[b].motionType = "Static" /\ bodies[b].triangles > 0}

\* the lines in ls that were drawn for body b
LinesOf(ls, b) == {k \in 1..Len(ls) : ls[k].body = b}

\* C25: a drawDebugShapes call with debug drawing enabled leaves the static
\* lines cached, computes them only when nothing was cached (three yellow
\* lines per triangle of each static mesh body) and otherwise keeps the cache
\* as it was, and leaves the renderer holding the cached lines followed by 12
\* lines for each non-static body and nothing else; a call with debug drawing
\* disabled changes nothing; no other step changes an existing cache
C25_DebugDrawCache ==
    /\ [][(pc = "debug" /\ stepsTotal' = stepsTotal + 1) =>
            IF debugDrawEnabled
            THEN /\ m_staticLinesCached'
                 /\ m_staticLinesCached => m_cachedStaticLines' = m_cachedStaticLines
                 /\ ~m_staticLinesCached =>
                       /\ \A b \in StaticMeshBodies :
                             Cardinality(LinesOf(m_cachedStaticLines', b))
                                 = 3 * bodies[b].triangles
                       /\ \A k \in 1..Len(m_cachedStaticLines') :
                             m_cachedStaticLines'[k].body \in StaticMeshBodies
                 /\ SubSeq(lines', 1, Len(m_cachedStaticLines')) = m_cachedStaticLines'
                 /\ Len(lines') = Len(m_cachedStaticLines')
                                      + 12 * Cardinality(NonStaticBodies)
                 /\ \A b \in NonStaticBodies :
                       Cardinality({k \in LinesOf(lines', b) :
                                       k > Len(m_cachedStaticLines')}) = 12
            ELSE UNCHANGED debugVars]_vars
    /\ [][m_staticLinesCached =>
            /\ m_staticLinesCached'
            /\ m_cachedStaticLines' = m_cachedStaticLines]_vars

\* every followed call was made, debug drawing is enabled, the lines of a
\* static mesh are cached and the box of one non-static body is held
C25_Witness ==
    /\ pc = "debug"
    /\ stepsTotal = MaxDraws
    /\ debugDrawEnabled
    /\ m_staticLinesCached
    /\ Len(m_cachedStaticLines) >= 3
    /\ Len(lines) = Len(m_cachedStaticLines) + 12


\* the position the scene's onLoad gave object o, read off the loaded scene
AuthoredPosition(o) ==
    (CHOOSE sc \in LoopScenes : sc.comps = atInit).pos[o] * PosScale

\* C26: while no fixed step has run since the scene was loaded, every object
\* with an enabled non-kinematic Rigidbody is at its scene-authored position
\* when the frame is rendered
C26_AuthoredUntilFirstStep ==
    (pc = "render" /\ hasScene /\ stepsTotal = 0) =>
        \A i \in 1..Len(components) :
            (components[i].kind = "Rigidbody" /\ components[i].enabled
             /\ ~components[i].isKinematic) =>
                position[components[i].owner] = AuthoredPosition(components[i].owner)


\* C27: every component in scene.components has an owner that is still in
\* scene.gameObjects
C27_OwnersAlive ==
    \A i \in 1..Len(components) : components[i].owner \in gameObjects


\* the contact event e is a ground contact for Rigidbody i: both bodies have
\* a GameObject with a Collider, neither Collider is a trigger, and the
\* normal points down past the threshold with i the Rigidbody of the first
\* object or up past it with i the Rigidbody of the second
GroundContactFor(e, i) ==
    LET obj1 == GetGameObjectFromBodyID(bodyToGameObject, e[2])
        obj2 == GetGameObjectFromBodyID(bodyToGameObject, e[3])
        col1 == GetComponent(components, obj1, "Collider")
        col2 == GetComponent(components, obj2, "Collider")
    IN /\ obj1 # NoObject /\ obj2 # NoObject
       /\ col1 # 0 /\ col2 # 0
       /\ ~components[col1].isTrigger /\ ~components[col2].isTrigger
       /\ \/ e[4][2] < -GroundThreshold
             /\ GetComponent(components, obj1, "Rigidbody") = i
          \/ e[4][2] > GroundThreshold
             /\ GetComponent(components, obj2, "Rigidbody") = i

\* C28: after a CollisionSystem::update, an enabled Rigidbody is grounded
\* only if that update reported a ground contact for it, whatever its flag
\* was before the update
C28_GroundedOnlyByContact ==
    [][(pc = "sync" /\ stepsTotal' = stepsTotal + 1) =>
          \A i \in 1..Len(components) :
              (components'[i].kind = "Rigidbody" /\ components'[i].enabled
               /\ components'[i].isGrounded) =>
                  \E k \in 1..Len(reported') : GroundContactFor(reported'[k], i)]_vars

\* checkGrounded grounded an enabled Rigidbody on the slope, and after a
\* later update that reported no contact it is not grounded
C28_Witness ==
    /\ pc = "sync"
    /\ stepsTotal >= 1
    /\ reported = <<>>
    /\ \E i \in 1..Len(components) :
          /\ components[i].kind = "Rigidbody" /\ components[i].enabled
          /\ components[i].groundNormal = SlopeNormal
          /\ ~components[i].isGrounded


\* the Animator has a current clip with at least one frame
HasFrames(a) ==
    a.currentClip # NoClip /\ Len(a.clips[a.currentClip].frameNames) >= 1

\* C29: whenever the current clip has n >= 1 frames, 0 <= getCurrentFrame()
\* <= n - 1, whatever the playback speed; an onUpdate that ends a
\* non-looping clip leaves it on frame n - 1 and not playing, and one that
\* wraps a looping clip leaves it on frame 0
C29_FrameInRange ==
    /\ [](HasFrames(animator) =>
            /\ 0 <= animator.currentFrame
            /\ animator.currentFrame
                   <= Len(animator.clips[animator.currentClip].frameNames) - 1)
    /\ [][(animCall' = <<"onUpdate">> /\ HasFrames(animator)
           /\ animator.playing /\ ~animator.paused) =>
             LET clip == animator.clips[animator.currentClip]
             IN /\ (~clip.loop /\ ~animator'.playing) =>
                      animator'.currentFrame = Len(clip.frameNames) - 1
                /\ (clip.loop /\ animator.playbackSpeed > 0
                    /\ animator'.currentTime < animator.currentTime) =>
                      animator'.currentFrame = 0]_vars


\* C30: when the Animator has a current clip with at least one frame and its
\* owner has a MeshComponent, then after play, stop, pause, resume or
\* onUpdate the owner's meshName is the clip's frame name at
\* getCurrentFrame()
C30_MeshMatchesFrame ==
    (HasFrames(animator) /\ hasMeshComponent /\ animCall # <<>>
     /\ animCall[1] \in {"play", "stop", "pause", "resume", "onUpdate"}) =>
        /\ animator.currentFrame + 1
               \in DOMAIN animator.clips[animator.currentClip].frameNames
        /\ animator.meshName
               = animator.clips[animator.currentClip].frameNames[animator.currentFrame + 1]

====
